---------------------------- MODULE Spec2Model ----------------------------
(***************************************************************************)
(* A model of the go-unit package: units, quantities, the three JSON wire  *)
(* formats, the format detector, the per-dimension codecs and the          *)
(* cross-dimension entry point UnmarshalMeasurement.                       *)
(*                                                                         *)
(* Conventions.                                                            *)
(*  - Go strings are TLA+ strings; a character is a string of length 1     *)
(*    obtained with SubSeq.  The non-ASCII characters of unit symbols are  *)
(*    written <deg>, <micro>, <sup2>, <sup3>, <sub2>, <prime>, <dprime>;   *)
(*    symbols are only ever compared for equality, so the renaming is      *)
(*    injective and harmless.                                              *)
(*  - A float64 is an exact rational <<n, d>> in lowest terms with d > 0.  *)
(*    Rounding is not modelled.  Coefficients that do not fit the          *)
(*    32-bit integers (or are multiples of math.Pi) are Unrepresented;     *)
(*    no arithmetic is done with them.                                     *)
(*  - A JSON document is a record of its members; each member is a JSON    *)
(*    value [t, s, n] with t its kind.  encoding/json rules that matter    *)
(*    are modelled: a missing member and a null leave the Go zero value    *)
(*    without error, a member of the wrong kind is an error.               *)
(***************************************************************************)
EXTENDS Integers, Sequences, FiniteSets, TLC

VARIABLES
    phase,    \* position of the calling program: "idle", "built", "wire", "done", "read"
    q,        \* the quantity built by New (the receiver of the next operation)
    data,     \* the JSON document on the wire
    origin,   \* how data was produced: "none", "full", "compact", "minimal", "json", "external"
    call,     \* the last operation applied: [op, T, unit, other]
    res,      \* its outcome
    ans,      \* the answer of a predicate or an accessor: [found, q]
    fn,       \* the helper function applied on its own, "none" if none
    arg,      \* its arguments
    out       \* its result

vars == <<phase, q, data, origin, call, res, ans, fn, arg, out>>

-----------------------------------------------------------------------------
(* Bounds of the model.                                                    *)

\* Quantities are built with the integer values -1 .. MaxValue (and the
\* values the documentation uses as examples).
MaxValue == 2

\* External documents carry the numbers 0 .. MaxPayloadNumber * 10 in steps of 10.
MaxPayloadNumber == 1

\* Scalars of DivideByScalar are the integers -1 .. MaxScalar.
MaxScalar == 2

\* Names given to toSnakeCase have at most MaxLen characters.
MaxLen == 4

-----------------------------------------------------------------------------
(* float64 as exact rationals.                                             *)

RECURSIVE GCD(_, _)
GCD(a, b) == IF b = 0 THEN a ELSE GCD(b, a % b)

Abs(x) == IF x < 0 THEN -x ELSE x

Norm(r) ==
    LET g == GCD(Abs(r[1]), Abs(r[2]))
        s == IF r[2] < 0 THEN -1 ELSE 1
    IN  IF r[1] = 0 THEN <<0, 1>>
        ELSE <<s * (r[1] \div g), s * (r[2] \div g)>>

Rat(n) == <<n, 1>>
Zero == <<0, 1>>
One == <<1, 1>>
Unrepresented == <<0, 0>>

IsZero(r) == r[1] = 0 /\ r[2] # 0
\* x/y with the common factor removed, so that products stay small.
Reduce(x, y) ==
    LET g == GCD(Abs(x), Abs(y))
    IN  IF g = 0 THEN <<x, y>> ELSE <<x \div g, y \div g>>

RAdd(a, b) ==
    LET d == Reduce(a[2], b[2])
    IN  Norm(<<a[1] * d[2] + b[1] * d[1], a[2] * d[2]>>)
RSub(a, b) == RAdd(a, <<-b[1], b[2]>>)
RMul(a, b) ==
    LET l == Reduce(a[1], b[2])
        r == Reduce(b[1], a[2])
    IN  Norm(<<l[1] * r[1], r[2] * l[2]>>)
RDiv(a, b) == RMul(a, <<b[2], b[1]>>)
RAbs(a) == <<Abs(a[1]), a[2]>>

\* Integer division of Go constant expressions truncates toward zero.
GoIntConstDiv(a, b) ==
    Rat(IF (a < 0) = (b < 0) THEN Abs(a) \div Abs(b) ELSE -(Abs(a) \div Abs(b)))

\* math.Abs(x) < 1e-9 for a rational x = n/d in lowest terms.
Epsilon == 1000000000
BelowEpsilon(x) ==
    LET a == RAbs(x)
    IN  a[1] = 0 \/ (a[1] <= 2 /\ a[2] > a[1] * Epsilon)

-----------------------------------------------------------------------------
(* Strings.                                                                *)

UpperChars == "ABCDEFGHIJKLMNOPQRSTUVWXYZ"
LowerChars == "abcdefghijklmnopqrstuvwxyz"

CharAt(s, i) == SubSeq(s, i, i)

\* The upper-case letters, and the lower-case letter of each.
UpperLetters == {CharAt(UpperChars, i) : i \in 1..Len(UpperChars)}
LowerOf ==
    [c \in UpperLetters |->
        CharAt(LowerChars, CHOOSE i \in 1..Len(UpperChars) : CharAt(UpperChars, i) = c)]

IsUpper(c) == c \in UpperLetters

ToLowerChar(c) == IF IsUpper(c) THEN LowerOf[c] ELSE c

RECURSIVE ToLower(_)
ToLower(s) ==
    IF s = "" THEN ""
    ELSE ToLowerChar(CharAt(s, 1)) \o ToLower(SubSeq(s, 2, Len(s)))

\* strings.EqualFold on the ASCII strings of the model.
EqualFold(a, b) == Len(a) = Len(b) /\ ToLower(a) = ToLower(b)

\* The position of the first underscore of s at or after i; 0 when there is none.
RECURSIVE IndexUnderscoreFrom(_, _)
IndexUnderscoreFrom(s, i) ==
    IF i > Len(s) THEN 0
    ELSE IF CharAt(s, i) = "_" THEN i
    ELSE IndexUnderscoreFrom(s, i + 1)

\* strings.Index(s, "_") + 1; 0 when there is no underscore.
IndexUnderscore(s) == IndexUnderscoreFrom(s, 1)

RECURSIVE ReplaceSpaces(_)
ReplaceSpaces(s) ==
    IF s = "" THEN ""
    ELSE (IF CharAt(s, 1) = " " THEN "_" ELSE CharAt(s, 1))
         \o ReplaceSpaces(SubSeq(s, 2, Len(s)))

LastIsUnderscore(r) == Len(r) > 0 /\ CharAt(r, Len(r)) = "_"

RECURSIVE SnakeLoop(_, _, _)
SnakeLoop(s, i, result) ==
    IF i > Len(s) THEN result
    ELSE LET r == CharAt(s, i)
         IN  IF IsUpper(r)
             THEN SnakeLoop(s, i + 1,
                    (IF i > 1 /\ Len(result) > 0 /\ ~LastIsUnderscore(result)
                     THEN result \o "_" ELSE result) \o ToLowerChar(r))
             ELSE IF r = "_"
             THEN SnakeLoop(s, i + 1,
                    IF Len(result) > 0 /\ ~LastIsUnderscore(result)
                    THEN result \o "_" ELSE result)
             ELSE SnakeLoop(s, i + 1, result \o r)

\* A derivation that writes an underscore before every upper-case letter
\* past the start, whatever precedes it.
toSnakeCaseAlwaysInserts(s) ==
    LET t == ReplaceSpaces(s)
        F[i \in 0..Len(t)] ==
            IF i = 0 THEN ""
            ELSE F[i - 1]
                 \o (IF IsUpper(CharAt(t, i)) /\ i > 1 THEN "_" ELSE "")
                 \o ToLowerChar(CharAt(t, i))
    IN  F[Len(t)]

toSnakeCase(s) == SnakeLoop(ReplaceSpaces(s), 1, "")

unitKey(dimension, name) == ToLower(dimension) \o "_" \o toSnakeCase(name)

\* <<dimension, unitName>>
parseUnitKey(key) ==
    LET idx == IndexUnderscore(key)
    IN  IF idx = 0 THEN <<key, "">>
        ELSE <<SubSeq(key, 1, idx - 1), SubSeq(key, idx + 1, Len(key))>>

-----------------------------------------------------------------------------
(* Units.                                                                  *)

NewBaseUnit(dimension, symbol, name, coefficient, offset, isBase) ==
    [dimension |-> dimension, symbol |-> symbol, name |-> name,
     coefficient |-> coefficient, offset |-> offset, isBase |-> isBase]

\* The zero value of a unit type (an empty BaseUnit).
ZeroUnit == NewBaseUnit("", "", "", Zero, Zero, FALSE)

\* Temperature: the predefined temperature units (src/temperature.go:11-46).
Temperature ==
    [Celsius |-> NewBaseUnit("temperature", "<deg>C", "Celsius", <<1, 1>>, <<0, 1>>, TRUE),
     Fahrenheit |-> NewBaseUnit("temperature", "<deg>F", "Fahrenheit", <<5, 9>>, GoIntConstDiv(-32*5, 9), FALSE),
     Kelvin |-> NewBaseUnit("temperature", "K", "Kelvin", <<1, 1>>, <<-5463, 20>>, FALSE)]

\* Pressure: the predefined pressure units (src/unnamed/part_003:47-104).
Pressure ==
    [Pascal |-> NewBaseUnit("pressure", "Pa", "Pascal", <<1, 1>>, <<0, 1>>, TRUE),
     Kilopascal |-> NewBaseUnit("pressure", "kPa", "Kilopascal", <<1000, 1>>, <<0, 1>>, FALSE),
     Bar |-> NewBaseUnit("pressure", "bar", "Bar", <<100000, 1>>, <<0, 1>>, FALSE),
     PSI |-> NewBaseUnit("pressure", "psi", "Pounds per Square Inch", <<172369, 25>>, <<0, 1>>, FALSE),
     InchH2O |-> NewBaseUnit("pressure", "inH<sub2>O", "Inches of Water Column", <<249089, 1000>>, <<0, 1>>, FALSE)]

\* FlowRate: the predefined flowrate units (src/CONTRIBUTING.md:214-249).
FlowRate ==
    [CubicMetersPerHour |-> NewBaseUnit("flowrate", "m<sup3>/h", "Cubic Meters per Hour", <<1, 1>>, <<0, 1>>, TRUE),
     LitersPerSecond |-> NewBaseUnit("flowrate", "L/s", "Liters per Second", <<18, 5>>, <<0, 1>>, FALSE),
     CFM |-> NewBaseUnit("flowrate", "CFM", "Cubic Feet per Minute", <<1699, 1000>>, <<0, 1>>, FALSE)]

\* Power: the predefined power units (src/power.go:11-46).
Power ==
    [Watt |-> NewBaseUnit("power", "W", "Watt", <<1, 1>>, <<0, 1>>, TRUE),
     Kilowatt |-> NewBaseUnit("power", "kW", "Kilowatt", <<1000, 1>>, <<0, 1>>, FALSE),
     BTUPerHour |-> NewBaseUnit("power", "BTU/h", "British Thermal Unit per Hour", <<29307107, 100000000>>, <<0, 1>>, FALSE)]

\* Energy: the predefined energy units (src/energy.go:11-46).
Energy ==
    [Joule |-> NewBaseUnit("energy", "J", "Joule", <<1, 1>>, <<0, 1>>, TRUE),
     KilowattHour |-> NewBaseUnit("energy", "kWh", "Kilowatt-hour", <<3600000, 1>>, <<0, 1>>, FALSE),
     BTU |-> NewBaseUnit("energy", "BTU", "British Thermal Unit", <<52753, 50>>, <<0, 1>>, FALSE)]

\* Length: the predefined length units (src/length.go:11-123).
Length ==
    [Meter |-> NewBaseUnit("length", "m", "Meter", <<1, 1>>, <<0, 1>>, TRUE),
     Kilometer |-> NewBaseUnit("length", "km", "Kilometer", <<1000, 1>>, <<0, 1>>, FALSE),
     Centimeter |-> NewBaseUnit("length", "cm", "Centimeter", <<1, 100>>, <<0, 1>>, FALSE),
     Millimeter |-> NewBaseUnit("length", "mm", "Millimeter", <<1, 1000>>, <<0, 1>>, FALSE),
     Micrometer |-> NewBaseUnit("length", "<micro>m", "Micrometer", <<1, 1000000>>, <<0, 1>>, FALSE),
     Nanometer |-> NewBaseUnit("length", "nm", "Nanometer", <<1, 1000000000>>, <<0, 1>>, FALSE),
     Inch |-> NewBaseUnit("length", "in", "Inch", <<127, 5000>>, <<0, 1>>, FALSE),
     Foot |-> NewBaseUnit("length", "ft", "Foot", <<381, 1250>>, <<0, 1>>, FALSE),
     Yard |-> NewBaseUnit("length", "yd", "Yard", <<1143, 1250>>, <<0, 1>>, FALSE),
     Mile |-> NewBaseUnit("length", "mi", "Mile", <<80467, 50>>, <<0, 1>>, FALSE)]

\* Mass: the predefined mass units (src/quantity.go:503-604).
Mass ==
    [Kilogram |-> NewBaseUnit("mass", "kg", "Kilogram", <<1, 1>>, <<0, 1>>, TRUE),
     Gram |-> NewBaseUnit("mass", "g", "Gram", <<1, 1000>>, <<0, 1>>, FALSE),
     Milligram |-> NewBaseUnit("mass", "mg", "Milligram", <<1, 1000000>>, <<0, 1>>, FALSE),
     Microgram |-> NewBaseUnit("mass", "<micro>g", "Microgram", <<1, 1000000000>>, <<0, 1>>, FALSE),
     Pound |-> NewBaseUnit("mass", "lb", "Pound", <<45359237, 100000000>>, <<0, 1>>, FALSE),
     Ounce |-> NewBaseUnit("mass", "oz", "Ounce", <<45359237, 1600000000>>, <<0, 1>>, FALSE),
     Stone |-> NewBaseUnit("mass", "st", "Stone", <<317514659, 50000000>>, <<0, 1>>, FALSE),
     MetricTon |-> NewBaseUnit("mass", "t", "Metric Ton", <<1000, 1>>, <<0, 1>>, FALSE),
     Ton |-> NewBaseUnit("mass", "ton", "Ton", <<45359237, 50000>>, <<0, 1>>, FALSE)]

\* Duration: the predefined duration units (src/unnamed/part_006:140-219).
Duration ==
    [Second |-> NewBaseUnit("duration", "s", "Second", <<1, 1>>, <<0, 1>>, TRUE),
     Minute |-> NewBaseUnit("duration", "min", "Minute", <<60, 1>>, <<0, 1>>, FALSE),
     Hour |-> NewBaseUnit("duration", "h", "Hour", <<3600, 1>>, <<0, 1>>, FALSE),
     Day |-> NewBaseUnit("duration", "d", "Day", <<86400, 1>>, <<0, 1>>, FALSE),
     Millisecond |-> NewBaseUnit("duration", "ms", "Millisecond", <<1, 1000>>, <<0, 1>>, FALSE),
     Microsecond |-> NewBaseUnit("duration", "<micro>s", "Microsecond", <<1, 1000000>>, <<0, 1>>, FALSE),
     Nanosecond |-> NewBaseUnit("duration", "ns", "Nanosecond", <<1, 1000000000>>, <<0, 1>>, FALSE)]

\* Angle: the predefined angle units (src/unnamed/part_001:456-524).
Angle ==
    [Radian |-> NewBaseUnit("angle", "rad", "Radian", <<1, 1>>, <<0, 1>>, TRUE),
     Degree |-> NewBaseUnit("angle", "<deg>", "Degree", Unrepresented, <<0, 1>>, FALSE),
     Arcminute |-> NewBaseUnit("angle", "<prime>", "Arcminute", Unrepresented, <<0, 1>>, FALSE),
     Arcsecond |-> NewBaseUnit("angle", "<dprime>", "Arcsecond", Unrepresented, <<0, 1>>, FALSE),
     Revolution |-> NewBaseUnit("angle", "rev", "Revolution", Unrepresented, <<0, 1>>, FALSE),
     Gradian |-> NewBaseUnit("angle", "grad", "Gradian", Unrepresented, <<0, 1>>, FALSE)]

\* Area: the predefined area units (src/unnamed/part_007:11-123).
Area ==
    [SquareMeter |-> NewBaseUnit("area", "m<sup2>", "Square Meter", <<1, 1>>, <<0, 1>>, TRUE),
     SquareKilometer |-> NewBaseUnit("area", "km<sup2>", "Square Kilometer", <<1000000, 1>>, <<0, 1>>, FALSE),
     SquareCentimeter |-> NewBaseUnit("area", "cm<sup2>", "Square Centimeter", <<1, 10000>>, <<0, 1>>, FALSE),
     SquareMillimeter |-> NewBaseUnit("area", "mm<sup2>", "Square Millimeter", <<1, 1000000>>, <<0, 1>>, FALSE),
     SquareInch |-> NewBaseUnit("area", "in<sup2>", "Square Inch", <<16129, 25000000>>, <<0, 1>>, FALSE),
     SquareFoot |-> NewBaseUnit("area", "ft<sup2>", "Square Foot", <<145161, 1562500>>, <<0, 1>>, FALSE),
     SquareYard |-> NewBaseUnit("area", "yd<sup2>", "Square Yard", <<1306449, 1562500>>, <<0, 1>>, FALSE),
     SquareMile |-> NewBaseUnit("area", "mi<sup2>", "Square Mile", <<258998811, 100>>, <<0, 1>>, FALSE),
     Acre |-> NewBaseUnit("area", "ac", "Acre", <<202343, 50>>, <<0, 1>>, FALSE),
     Hectare |-> NewBaseUnit("area", "ha", "Hectare", <<10000, 1>>, <<0, 1>>, FALSE)]

\* Volume: the predefined volume units (src/volume.go:11-167).
Volume ==
    [CubicMeter |-> NewBaseUnit("volume", "m<sup3>", "Cubic Meter", <<1, 1>>, <<0, 1>>, TRUE),
     CubicKilometer |-> NewBaseUnit("volume", "km<sup3>", "Cubic Kilometer", <<1000000000, 1>>, <<0, 1>>, FALSE),
     CubicCentimeter |-> NewBaseUnit("volume", "cm<sup3>", "Cubic Centimeter", <<1, 1000000>>, <<0, 1>>, FALSE),
     CubicMillimeter |-> NewBaseUnit("volume", "mm<sup3>", "Cubic Millimeter", <<1, 1000000000>>, <<0, 1>>, FALSE),
     Liter |-> NewBaseUnit("volume", "L", "Liter", <<1, 1000>>, <<0, 1>>, FALSE),
     Milliliter |-> NewBaseUnit("volume", "mL", "Milliliter", <<1, 1000000>>, <<0, 1>>, FALSE),
     CubicInch |-> NewBaseUnit("volume", "in<sup3>", "Cubic Inch", Unrepresented, <<0, 1>>, FALSE),
     CubicFoot |-> NewBaseUnit("volume", "ft<sup3>", "Cubic Foot", <<55306341, 1953125000>>, <<0, 1>>, FALSE),
     CubicYard |-> NewBaseUnit("volume", "yd<sup3>", "Cubic Yard", <<1493271207, 1953125000>>, <<0, 1>>, FALSE),
     Gallon |-> NewBaseUnit("volume", "gal", "Gallon", Unrepresented, <<0, 1>>, FALSE),
     Quart |-> NewBaseUnit("volume", "qt", "Quart", Unrepresented, <<0, 1>>, FALSE),
     Pint |-> NewBaseUnit("volume", "pt", "Pint", Unrepresented, <<0, 1>>, FALSE),
     Cup |-> NewBaseUnit("volume", "cup", "Cup", Unrepresented, <<0, 1>>, FALSE),
     FluidOunce |-> NewBaseUnit("volume", "fl oz", "Fluid Ounce", Unrepresented, <<0, 1>>, FALSE)]

\* Acceleration: the predefined acceleration units (src/length_test.go:448-483).
Acceleration ==
    [MetersPerSecondSquared |-> NewBaseUnit("acceleration", "m/s<sup2>", "Meters per Second Squared", <<1, 1>>, <<0, 1>>, TRUE),
     G |-> NewBaseUnit("acceleration", "g", "G-force", <<196133, 20000>>, <<0, 1>>, FALSE),
     FeetPerSecondSquared |-> NewBaseUnit("acceleration", "ft/s<sup2>", "Feet per Second Squared", <<381, 1250>>, <<0, 1>>, FALSE)]

\* Concentration: the predefined concentration units (src/concentration.go:11-57).
Concentration ==
    [GramsPerLiter |-> NewBaseUnit("concentration", "g/L", "Grams per Liter", <<1, 1>>, <<0, 1>>, TRUE),
     MilligramsPerLiter |-> NewBaseUnit("concentration", "mg/L", "Milligrams per Liter", <<1, 1000>>, <<0, 1>>, FALSE),
     PartsPerMillion |-> NewBaseUnit("concentration", "ppm", "Parts per Million", <<1, 1000>>, <<0, 1>>, FALSE),
     PartsPerBillion |-> NewBaseUnit("concentration", "ppb", "Parts per Billion", <<1, 1000000>>, <<0, 1>>, FALSE)]

\* Dispersion: the predefined dispersion units (src/length_test.go:385-431).
Dispersion ==
    [PartsPerMillion |-> NewBaseUnit("dispersion", "ppm", "Parts per Million", <<1, 1>>, <<0, 1>>, TRUE),
     PartsPerBillion |-> NewBaseUnit("dispersion", "ppb", "Parts per Billion", <<1, 1000>>, <<0, 1>>, FALSE),
     PartsPerTrillion |-> NewBaseUnit("dispersion", "ppt", "Parts per Trillion", <<1, 1000000>>, <<0, 1>>, FALSE),
     Percent |-> NewBaseUnit("dispersion", "%", "Percent", <<10000, 1>>, <<0, 1>>, FALSE)]

\* Speed: the predefined speed units (src/speed.go:11-68).
Speed ==
    [MetersPerSecond |-> NewBaseUnit("speed", "m/s", "Meters per Second", <<1, 1>>, <<0, 1>>, TRUE),
     KilometersPerHour |-> NewBaseUnit("speed", "km/h", "Kilometers per Hour", <<5, 18>>, <<0, 1>>, FALSE),
     MilesPerHour |-> NewBaseUnit("speed", "mph", "Miles per Hour", <<1397, 3125>>, <<0, 1>>, FALSE),
     FeetPerSecond |-> NewBaseUnit("speed", "ft/s", "Feet per Second", <<381, 1250>>, <<0, 1>>, FALSE),
     Knot |-> NewBaseUnit("speed", "kn", "Knot", <<12861, 25000>>, <<0, 1>>, FALSE)]

\* ElectricCharge: the predefined electric_charge units (src/electric_charge.go:11-68).
ElectricCharge ==
    [Coulomb |-> NewBaseUnit("electric_charge", "C", "Coulomb", <<1, 1>>, <<0, 1>>, TRUE),
     Millicoulomb |-> NewBaseUnit("electric_charge", "mC", "Millicoulomb", <<1, 1000>>, <<0, 1>>, FALSE),
     Microcoulomb |-> NewBaseUnit("electric_charge", "<micro>C", "Microcoulomb", <<1, 1000000>>, <<0, 1>>, FALSE),
     Ampere_Hour |-> NewBaseUnit("electric_charge", "Ah", "Ampere-hour", <<3600, 1>>, <<0, 1>>, FALSE),
     Milliampere_Hour |-> NewBaseUnit("electric_charge", "mAh", "Milliampere-hour", <<18, 5>>, <<0, 1>>, FALSE)]

\* ElectricCurrent: the predefined electric_current units (src/electric_current.go:11-57).
ElectricCurrent ==
    [Ampere |-> NewBaseUnit("electric_current", "A", "Ampere", <<1, 1>>, <<0, 1>>, TRUE),
     Milliampere |-> NewBaseUnit("electric_current", "mA", "Milliampere", <<1, 1000>>, <<0, 1>>, FALSE),
     Microampere |-> NewBaseUnit("electric_current", "<micro>A", "Microampere", <<1, 1000000>>, <<0, 1>>, FALSE),
     Kiloampere |-> NewBaseUnit("electric_current", "kA", "Kiloampere", <<1000, 1>>, <<0, 1>>, FALSE)]

\* ElectricPotentialDifference: the predefined electric_potential_difference units (src/unnamed/part_001:380-437).
ElectricPotentialDifference ==
    [Volt |-> NewBaseUnit("electric_potential_difference", "V", "Volt", <<1, 1>>, <<0, 1>>, TRUE),
     Millivolt |-> NewBaseUnit("electric_potential_difference", "mV", "Millivolt", <<1, 1000>>, <<0, 1>>, FALSE),
     Microvolt |-> NewBaseUnit("electric_potential_difference", "<micro>V", "Microvolt", <<1, 1000000>>, <<0, 1>>, FALSE),
     Kilovolt |-> NewBaseUnit("electric_potential_difference", "kV", "Kilovolt", <<1000, 1>>, <<0, 1>>, FALSE),
     Megavolt |-> NewBaseUnit("electric_potential_difference", "MV", "Megavolt", <<1000000, 1>>, <<0, 1>>, FALSE)]

\* Frequency: the predefined frequency units (src/frequency.go:11-79).
Frequency ==
    [Hertz |-> NewBaseUnit("frequency", "Hz", "Hertz", <<1, 1>>, <<0, 1>>, TRUE),
     Kilohertz |-> NewBaseUnit("frequency", "kHz", "Kilohertz", <<1000, 1>>, <<0, 1>>, FALSE),
     Megahertz |-> NewBaseUnit("frequency", "MHz", "Megahertz", <<1000000, 1>>, <<0, 1>>, FALSE),
     Gigahertz |-> NewBaseUnit("frequency", "GHz", "Gigahertz", <<1000000000, 1>>, <<0, 1>>, FALSE),
     Terahertz |-> NewBaseUnit("frequency", "THz", "Terahertz", Unrepresented, <<0, 1>>, FALSE),
     RPM |-> NewBaseUnit("frequency", "rpm", "Revolutions Per Minute", <<1, 60>>, <<0, 1>>, FALSE)]

\* Illuminance: the predefined illuminance units (src/illuminance.go:11-57).
Illuminance ==
    [Lux |-> NewBaseUnit("illuminance", "lx", "Lux", <<1, 1>>, <<0, 1>>, TRUE),
     FootCandle |-> NewBaseUnit("illuminance", "fc", "Foot-candle", <<107639, 10000>>, <<0, 1>>, FALSE),
     Phot |-> NewBaseUnit("illuminance", "ph", "Phot", <<10000, 1>>, <<0, 1>>, FALSE),
     Nox |-> NewBaseUnit("illuminance", "nx", "Nox", <<1, 1000>>, <<0, 1>>, FALSE)]

\* Information: the predefined information units (src/unnamed/part_005:11-145).
Information ==
    [Bit |-> NewBaseUnit("information", "bit", "Bit", <<1, 8>>, <<0, 1>>, FALSE),
     Byte |-> NewBaseUnit("information", "B", "Byte", <<1, 1>>, <<0, 1>>, TRUE),
     Kilobyte |-> NewBaseUnit("information", "KB", "Kilobyte", <<1000, 1>>, <<0, 1>>, FALSE),
     Megabyte |-> NewBaseUnit("information", "MB", "Megabyte", <<1000000, 1>>, <<0, 1>>, FALSE),
     Gigabyte |-> NewBaseUnit("information", "GB", "Gigabyte", <<1000000000, 1>>, <<0, 1>>, FALSE),
     Terabyte |-> NewBaseUnit("information", "TB", "Terabyte", Unrepresented, <<0, 1>>, FALSE),
     Petabyte |-> NewBaseUnit("information", "PB", "Petabyte", Unrepresented, <<0, 1>>, FALSE),
     Kibibyte |-> NewBaseUnit("information", "KiB", "Kibibyte", <<1024, 1>>, <<0, 1>>, FALSE),
     Mebibyte |-> NewBaseUnit("information", "MiB", "Mebibyte", <<1048576, 1>>, <<0, 1>>, FALSE),
     Gibibyte |-> NewBaseUnit("information", "GiB", "Gibibyte", <<1073741824, 1>>, <<0, 1>>, FALSE),
     Tebibyte |-> NewBaseUnit("information", "TiB", "Tebibyte", Unrepresented, <<0, 1>>, FALSE),
     Pebibyte |-> NewBaseUnit("information", "PiB", "Pebibyte", Unrepresented, <<0, 1>>, FALSE)]

\* FuelEfficiency: the predefined fuel_efficiency units (src/fuel_efficiency.go:11-46).
FuelEfficiency ==
    [KilometersPerLiter |-> NewBaseUnit("fuel_efficiency", "km/L", "Kilometers per Liter", <<1, 1>>, <<0, 1>>, TRUE),
     MilesPerGallon |-> NewBaseUnit("fuel_efficiency", "mpg", "Miles per Gallon", <<53143, 125000>>, <<0, 1>>, FALSE),
     LitersPer100Kilometers |-> NewBaseUnit("fuel_efficiency", "L/100km", "Liters per 100 Kilometers", <<-100, 1>>, <<0, 1>>, FALSE)]

\* General: the predefined general units (src/general.go:11-24).
General ==
    [Unit |-> NewBaseUnit("general", "unit", "General Unit", <<1, 1>>, <<0, 1>>, TRUE)]

\* NewGeneralUnit: a custom unit of the general dimension.
NewGeneralUnit(symbol, name) == NewBaseUnit("general", symbol, name, One, Zero, FALSE)

\* The unit types, each named by the dimension of its predefined units, and
\* the table of predefined units of each.
UnitTables ==
    [temperature |-> Temperature, pressure |-> Pressure, flowrate |-> FlowRate,
     power |-> Power, energy |-> Energy, length |-> Length, mass |-> Mass,
     duration |-> Duration, angle |-> Angle, area |-> Area, volume |-> Volume,
     acceleration |-> Acceleration, concentration |-> Concentration,
     dispersion |-> Dispersion, speed |-> Speed,
     electric_charge |-> ElectricCharge, electric_current |-> ElectricCurrent,
     electric_potential_difference |-> ElectricPotentialDifference,
     frequency |-> Frequency, illuminance |-> Illuminance,
     information |-> Information, fuel_efficiency |-> FuelEfficiency,
     general |-> General]

Dimensions == DOMAIN UnitTables

Range(f) == {f[x] : x \in DOMAIN f}

UnitsOf(D) == Range(UnitTables[D])

PredefinedUnits == UNION {UnitsOf(D) : D \in Dimensions}

-----------------------------------------------------------------------------
(* Quantity[T].  T is named by the dimension of T's predefined units.      *)

Quantity(T, value, unit) == [T |-> T, Value |-> value, Unit |-> unit]

New(T, value, unit) == Quantity(T, value, unit)

ZeroQuantity(T) == Quantity(T, Zero, ZeroUnit)

\* Outcome of an operation: status is "ok", "error" (an error value was
\* returned) or "panic"; err names the failure; q is the returned quantity;
\* dimension is the tag of a returned AnyMeasurement.
Ok(quantity) == [status |-> "ok", err |-> "", q |-> quantity, dimension |-> ""]
Error(T, kind) == [status |-> "error", err |-> kind, q |-> ZeroQuantity(T), dimension |-> ""]
Panic(T, kind) == [status |-> "panic", err |-> kind, q |-> ZeroQuantity(T), dimension |-> ""]
NoOutcome == [status |-> "none", err |-> "", q |-> ZeroQuantity(""), dimension |-> ""]

\* A float64 result or a panic.
Val(v) == [panic |-> FALSE, v |-> v]
PanicVal == [panic |-> TRUE, v |-> Zero]

\* A base-unit test that looks at the coefficient.
IsBaseUnitByCoefficient(u) == u.coefficient = One

\* BaseUnit.IsBaseUnit.
IsBaseUnit(u) == u.isBase

Equals(u, other) == u.dimension = other.dimension /\ u.symbol = other.symbol

BaseUnitConvertToBaseUnit(u, value) ==
    IF u.isBase THEN value
    ELSE IF u.coefficient = Unrepresented THEN Unrepresented
    ELSE IF ~IsZero(u.offset) THEN RAdd(RMul(value, u.coefficient), u.offset)
    ELSE RMul(value, u.coefficient)

BaseUnitConvertFromBaseUnit(u, value) ==
    IF u.isBase THEN value
    ELSE IF u.coefficient = Unrepresented \/ value = Unrepresented THEN Unrepresented
    ELSE IF ~IsZero(u.offset) THEN RDiv(RSub(value, u.offset), u.coefficient)
    ELSE RDiv(value, u.coefficient)

\* A conversion to the base unit that takes L/100km for L/km.
ConvertToBaseUnitPerKilometer(T, u, value) ==
    IF T = "fuel_efficiency" /\ u.symbol = "L/100km"
    THEN IF IsZero(value) THEN PanicVal ELSE Val(RDiv(One, value))
    ELSE Val(BaseUnitConvertToBaseUnit(u, value))

\* FuelEfficiencyUnit overrides both conversions for L/100km.
ConvertToBaseUnit(T, u, value) ==
    IF T = "fuel_efficiency" /\ u.symbol = "L/100km"
    THEN IF IsZero(value) THEN PanicVal ELSE Val(RDiv(Rat(100), value))
    ELSE Val(BaseUnitConvertToBaseUnit(u, value))

ConvertFromBaseUnit(T, u, value) ==
    IF T = "fuel_efficiency" /\ u.symbol = "L/100km"
    THEN IF IsZero(value) THEN PanicVal ELSE Val(RDiv(Rat(100), value))
    ELSE Val(BaseUnitConvertFromBaseUnit(u, value))

\* Quantity.Equal: "true", "false" or "panic".  Two Unrepresented base
\* values are the same float64 exactly when value and unit agree.
Equal(m, other) ==
    IF m.Unit.dimension # other.Unit.dimension THEN "false"
    ELSE LET mBaseValue == ConvertToBaseUnit(m.T, m.Unit, m.Value)
             otherBaseValue == ConvertToBaseUnit(m.T, other.Unit, other.Value)
         IN  IF mBaseValue.panic \/ otherBaseValue.panic THEN "panic"
             ELSE IF mBaseValue.v = Unrepresented \/ otherBaseValue.v = Unrepresented
             THEN (IF m.Value = other.Value /\ m.Unit = other.Unit THEN "true" ELSE "false")
             ELSE IF BelowEpsilon(RSub(mBaseValue.v, otherBaseValue.v)) THEN "true"
             ELSE "false"

\* A conversion without its dimension check.
ConvertToUnchecked(m, unit) ==
    IF Equals(m.Unit, unit) THEN Ok(Quantity(m.T, m.Value, unit))
    ELSE LET valueInBaseUnit == ConvertToBaseUnit(m.T, m.Unit, m.Value)
         IN  IF valueInBaseUnit.panic THEN Panic(m.T, "InfiniteEfficiency")
             ELSE LET valueInTargetUnit == ConvertFromBaseUnit(m.T, unit, valueInBaseUnit.v)
                  IN  IF valueInTargetUnit.panic THEN Panic(m.T, "InfiniteEfficiency")
                      ELSE Ok(Quantity(m.T, valueInTargetUnit.v, unit))

\* A conversion that takes a reciprocal unit through the base unit even
\* when the target is the current unit.
ConvertToViaBaseUnit(m, unit) ==
    IF Equals(m.Unit, unit) /\ unit.symbol # "L/100km"
    THEN Ok(Quantity(m.T, m.Value, unit))
    ELSE IF m.Unit.dimension # unit.dimension THEN Panic(m.T, "DimensionMismatch")
    ELSE LET valueInBaseUnit == ConvertToBaseUnit(m.T, m.Unit, m.Value)
         IN  IF valueInBaseUnit.panic THEN Panic(m.T, "InfiniteEfficiency")
             ELSE LET valueInTargetUnit == ConvertFromBaseUnit(m.T, unit, valueInBaseUnit.v)
                  IN  IF valueInTargetUnit.panic THEN Panic(m.T, "InfiniteEfficiency")
                      ELSE Ok(Quantity(m.T, valueInTargetUnit.v, unit))

ConvertTo(m, unit) ==
    IF Equals(m.Unit, unit) THEN Ok(Quantity(m.T, m.Value, unit))
    ELSE IF m.Unit.dimension # unit.dimension THEN Panic(m.T, "DimensionMismatch")
    ELSE LET valueInBaseUnit == ConvertToBaseUnit(m.T, m.Unit, m.Value)
         IN  IF valueInBaseUnit.panic THEN Panic(m.T, "InfiniteEfficiency")
             ELSE LET valueInTargetUnit == ConvertFromBaseUnit(m.T, unit, valueInBaseUnit.v)
                  IN  IF valueInTargetUnit.panic THEN Panic(m.T, "InfiniteEfficiency")
                      ELSE Ok(Quantity(m.T, valueInTargetUnit.v, unit))

\* An addition that converts the left-hand operand into the right-hand
\* operand's unit and labels the sum with the left-hand unit.
AddInRightUnit(m, other) ==
    IF m.Unit.dimension # other.Unit.dimension THEN Panic(m.T, "DimensionMismatch")
    ELSE LET converted == ConvertTo(m, other.Unit)
         IN  IF converted.status = "panic" THEN converted
             ELSE Ok(Quantity(m.T, RAdd(converted.q.Value, other.Value), m.Unit))

\* An addition of the raw values, without converting the right-hand operand.
AddRaw(m, other) ==
    IF m.Unit.dimension # other.Unit.dimension THEN Panic(m.T, "DimensionMismatch")
    ELSE Ok(Quantity(m.T, RAdd(m.Value, other.Value), m.Unit))

Add(m, other) ==
    IF m.Unit.dimension # other.Unit.dimension THEN Panic(m.T, "DimensionMismatch")
    ELSE LET otherConverted == ConvertTo(other, m.Unit)
         IN  IF otherConverted.status = "panic" THEN otherConverted
             ELSE Ok(Quantity(m.T, RAdd(m.Value, otherConverted.q.Value), m.Unit))

Subtract(m, other) ==
    IF m.Unit.dimension # other.Unit.dimension THEN Panic(m.T, "DimensionMismatch")
    ELSE LET otherConverted == ConvertTo(other, m.Unit)
         IN  IF otherConverted.status = "panic" THEN otherConverted
             ELSE Ok(Quantity(m.T, RSub(m.Value, otherConverted.q.Value), m.Unit))

\* A division without the check for a zero scalar.
DivideByScalarUnchecked(m, scalar) ==
    Ok(Quantity(m.T, RDiv(m.Value, scalar), m.Unit))

DivideByScalar(m, scalar) ==
    IF IsZero(scalar) THEN Panic(m.T, "DivisionByZero")
    ELSE Ok(Quantity(m.T, RDiv(m.Value, scalar), m.Unit))

\* NewFuelEfficiency panics for 0 L/100km.
NewFuelEfficiency(value, unit) ==
    IF Equals(unit, FuelEfficiency.LitersPer100Kilometers) /\ IsZero(value)
    THEN Panic("fuel_efficiency", "InfiniteEfficiency")
    ELSE Ok(New("fuel_efficiency", value, unit))

-----------------------------------------------------------------------------
(* JSON documents.                                                         *)

\* A JSON value: t is "absent" (no such member), "null", "string",
\* "number" or "object"; s is the text of a string, n the number.
Absent == [t |-> "absent", s |-> "", n |-> Zero]
Null == [t |-> "null", s |-> "", n |-> Zero]
JString(s) == [t |-> "string", s |-> s, n |-> Zero]
JNumber(n) == [t |-> "number", s |-> "", n |-> n]
JObject == [t |-> "object", s |-> "", n |-> Zero]

\* A document: wellFormed is FALSE for bytes that are not a JSON object;
\* value, unit, symbol and dimension are the top-level members; unit_key,
\* unit_symbol, unit_name and unit_dimension are the members of the unit
\* object (absent unless unit is an object).
Document(value, unit, uk, us, un, ud, symbol, dimension) ==
    [wellFormed |-> TRUE, value |-> value, unit |-> unit,
     unit_key |-> uk, unit_symbol |-> us, unit_name |-> un, unit_dimension |-> ud,
     symbol |-> symbol, dimension |-> dimension]

Malformed ==
    [Document(Absent, Absent, Absent, Absent, Absent, Absent, Absent, Absent)
        EXCEPT !.wellFormed = FALSE]

\* json.Unmarshal of a member into a Go string: absent and null leave "",
\* any other kind than string is an UnmarshalTypeError.
AsString(v) ==
    CASE v.t \in {"absent", "null"} -> [ok |-> TRUE, s |-> ""]
      [] v.t = "string" -> [ok |-> TRUE, s |-> v.s]
      [] OTHER -> [ok |-> FALSE, s |-> ""]

\* json.Unmarshal of a member into a float64.
AsFloat(v) ==
    CASE v.t \in {"absent", "null"} -> [ok |-> TRUE, n |-> Zero]
      [] v.t = "number" -> [ok |-> TRUE, n |-> v.n]
      [] OTHER -> [ok |-> FALSE, n |-> Zero]

FormatFull == "full"
FormatCompact == "compact"
FormatMinimal == "minimal"
Formats == {FormatFull, FormatCompact, FormatMinimal}

-----------------------------------------------------------------------------
(* Marshalling.                                                            *)

marshalGeneric(m) ==
    Document(JNumber(m.Value), JObject, Absent, JString(m.Unit.symbol),
             JString(m.Unit.name), JString(m.Unit.dimension), Absent, Absent)

marshalGenericCompact(m) ==
    Document(JNumber(m.Value), JObject,
             JString(unitKey(m.Unit.dimension, m.Unit.name)), JString(m.Unit.symbol),
             Absent, Absent, Absent, Absent)

marshalGenericMinimal(m) ==
    Document(JNumber(m.Value), JString(unitKey(m.Unit.dimension, m.Unit.name)),
             Absent, Absent, Absent, Absent, Absent, Absent)

\* Quantity.MarshalJSON: the dimension is a top-level member.
QuantityMarshalJSON(m) ==
    Document(JNumber(m.Value), JObject, Absent, JString(m.Unit.symbol),
             JString(m.Unit.name), Absent, Absent, JString(m.Unit.dimension))

MarshalWithFormat(m, format) ==
    CASE format = FormatFull -> marshalGeneric(m)
      [] format = FormatCompact -> marshalGenericCompact(m)
      [] format = FormatMinimal -> marshalGenericMinimal(m)
      [] OTHER -> marshalGeneric(m)

-----------------------------------------------------------------------------
(* Format detection and parsing.                                           *)

Detected(format, dimension) == [err |-> "", format |-> format, dimension |-> dimension]
DetectError(kind) == [err |-> kind, format |-> FormatFull, dimension |-> ""]

\* A detection that takes a string unit beside a top-level symbol for the
\* compact format.
detectFormatLegacyCompact(doc) ==
    IF ~doc.wellFormed THEN DetectError("MalformedJSON")
    ELSE IF doc.unit.t = "absent" THEN DetectError("MissingField")
    ELSE IF AsString(doc.unit).ok
    THEN Detected(IF doc.symbol.t # "absent" THEN FormatCompact ELSE FormatMinimal,
                  parseUnitKey(AsString(doc.unit).s)[1])
    ELSE IF doc.unit.t # "object" THEN DetectError("UnrecognizedShape")
    ELSE IF doc.unit_key.t # "absent" /\ AsString(doc.unit_key).ok
    THEN Detected(FormatCompact, parseUnitKey(AsString(doc.unit_key).s)[1])
    ELSE IF doc.unit_dimension.t # "absent" /\ AsString(doc.unit_dimension).ok
    THEN Detected(FormatFull, AsString(doc.unit_dimension).s)
    ELSE IF doc.dimension.t # "absent" /\ AsString(doc.dimension).ok
    THEN Detected(FormatFull, AsString(doc.dimension).s)
    ELSE DetectError("UnrecognizedShape")

detectFormat(doc) ==
    IF ~doc.wellFormed THEN DetectError("MalformedJSON")
    ELSE IF doc.unit.t = "absent" THEN DetectError("MissingField")
    ELSE IF AsString(doc.unit).ok
    THEN Detected(FormatMinimal, parseUnitKey(AsString(doc.unit).s)[1])
    ELSE IF doc.unit.t # "object" THEN DetectError("UnrecognizedShape")
    ELSE IF doc.unit_key.t # "absent" /\ AsString(doc.unit_key).ok
    THEN Detected(FormatCompact, parseUnitKey(AsString(doc.unit_key).s)[1])
    ELSE IF doc.unit_dimension.t # "absent" /\ AsString(doc.unit_dimension).ok
    THEN Detected(FormatFull, AsString(doc.unit_dimension).s)
    ELSE IF doc.dimension.t # "absent" /\ AsString(doc.dimension).ok
    THEN Detected(FormatFull, AsString(doc.dimension).s)
    ELSE DetectError("UnrecognizedShape")

unmarshalValue(doc) == AsFloat(doc.value)

UnitInfo(symbol, name, key) == [err |-> FALSE, symbol |-> symbol, name |-> name, key |-> key]
NoUnitInfo == [err |-> TRUE, symbol |-> "", name |-> "", key |-> ""]

\* json.Unmarshal into MeasurementJSON, legacyMeasurementJSON,
\* MeasurementCompactJSON, MeasurementMinimalJSON and legacyCompactJSON
\* succeeds when every member the struct declares has the declared kind.
DecodesFull(doc) ==
    /\ AsFloat(doc.value).ok /\ AsString(doc.unit_name).ok
    /\ AsString(doc.unit_symbol).ok /\ AsString(doc.unit_dimension).ok
DecodesLegacyFull(doc) ==
    /\ AsFloat(doc.value).ok /\ AsString(doc.unit_name).ok
    /\ AsString(doc.unit_symbol).ok /\ AsString(doc.dimension).ok
DecodesCompact(doc) ==
    /\ AsFloat(doc.value).ok /\ AsString(doc.unit_key).ok /\ AsString(doc.unit_symbol).ok
DecodesMinimal(doc) ==
    /\ AsFloat(doc.value).ok /\ AsString(doc.unit).ok
DecodesLegacyCompact(doc) ==
    /\ AsFloat(doc.value).ok /\ AsString(doc.unit).ok /\ AsString(doc.symbol).ok

unmarshalUnitInfo(doc) ==
    LET d == detectFormat(doc)
    IN  IF d.err # "" THEN NoUnitInfo
        ELSE CASE d.format = FormatFull ->
                    IF DecodesFull(doc) /\ AsString(doc.unit_symbol).s # ""
                    THEN UnitInfo(AsString(doc.unit_symbol).s, AsString(doc.unit_name).s, "")
                    ELSE IF DecodesLegacyFull(doc)
                    THEN UnitInfo(AsString(doc.unit_symbol).s, AsString(doc.unit_name).s, "")
                    ELSE NoUnitInfo
               [] d.format = FormatCompact ->
                    IF DecodesCompact(doc)
                    THEN UnitInfo(AsString(doc.unit_symbol).s, "", AsString(doc.unit_key).s)
                    ELSE NoUnitInfo
               [] d.format = FormatMinimal ->
                    IF DecodesMinimal(doc)
                    THEN IF DecodesLegacyCompact(doc) /\ AsString(doc.symbol).s # ""
                         THEN UnitInfo(AsString(doc.symbol).s, "", AsString(doc.unit).s)
                         ELSE UnitInfo("", "", AsString(doc.unit).s)
                    ELSE NoUnitInfo

\* parsedMeasurement, or the error of parseMeasurement.
parseMeasurement(doc) ==
    LET d == detectFormat(doc)
        value == unmarshalValue(doc)
        info == unmarshalUnitInfo(doc)
    IN  IF d.err # "" THEN [err |-> d.err]
        ELSE IF ~value.ok THEN [err |-> "MalformedNumber"]
        ELSE [err |-> "", Value |-> value.n, Symbol |-> info.symbol, Name |-> info.name,
              Key |-> info.key, Dimension |-> d.dimension, Format |-> d.format]

matchUnitByKey(p, unitName) ==
    IF p.Key = "" THEN FALSE
    ELSE EqualFold(parseUnitKey(p.Key)[2], unitName)

-----------------------------------------------------------------------------
(* The per-dimension codecs.                                               *)

\* The unit switch of each UnmarshalD other than UnmarshalGeneral.
UnmarshalCases ==
    [
     \* The switch of UnmarshalTemperature, in source order (src/CODE_OF_CONDUCT.md:751-774).
     temperature |->
        (<<[symbols |-> {"<deg>C", "C"}, key |-> "celsius", unit |-> Temperature.Celsius],
          [symbols |-> {"<deg>F", "F"}, key |-> "fahrenheit", unit |-> Temperature.Fahrenheit],
          [symbols |-> {"K"}, key |-> "kelvin", unit |-> Temperature.Kelvin]>>),
     \* The switch of UnmarshalPressure, in source order (src/CODE_OF_CONDUCT.md:782-809).
     pressure |->
        (<<[symbols |-> {"Pa"}, key |-> "pascal", unit |-> Pressure.Pascal],
          [symbols |-> {"kPa"}, key |-> "kilopascal", unit |-> Pressure.Kilopascal],
          [symbols |-> {"bar"}, key |-> "bar", unit |-> Pressure.Bar],
          [symbols |-> {"psi"}, key |-> "psi", unit |-> Pressure.PSI],
          [symbols |-> {"inH<sub2>O", "inH2O"}, key |-> "inch_h2o", unit |-> Pressure.InchH2O]>>),
     \* The switch of UnmarshalFlowRate, in source order (src/CODE_OF_CONDUCT.md:817-840).
     flowrate |->
        (<<[symbols |-> {"m<sup3>/h"}, key |-> "cubic_meters_per_hour", unit |-> FlowRate.CubicMetersPerHour],
          [symbols |-> {"L/s"}, key |-> "liters_per_second", unit |-> FlowRate.LitersPerSecond],
          [symbols |-> {"CFM"}, key |-> "cfm", unit |-> FlowRate.CFM]>>),
     \* The switch of UnmarshalPower, in source order (src/CODE_OF_CONDUCT.md:848-871).
     power |->
        (<<[symbols |-> {"W"}, key |-> "watt", unit |-> Power.Watt],
          [symbols |-> {"kW"}, key |-> "kilowatt", unit |-> Power.Kilowatt],
          [symbols |-> {"BTU/h"}, key |-> "btu_per_hour", unit |-> Power.BTUPerHour]>>),
     \* The switch of UnmarshalEnergy, in source order (src/CODE_OF_CONDUCT.md:879-902).
     energy |->
        (<<[symbols |-> {"J"}, key |-> "joule", unit |-> Energy.Joule],
          [symbols |-> {"kWh"}, key |-> "kilowatt_hour", unit |-> Energy.KilowattHour],
          [symbols |-> {"BTU"}, key |-> "btu", unit |-> Energy.BTU]>>),
     \* The switch of UnmarshalLength, in source order (src/CODE_OF_CONDUCT.md:910-947).
     length |->
        (<<[symbols |-> {"m"}, key |-> "meter", unit |-> Length.Meter],
          [symbols |-> {"km"}, key |-> "kilometer", unit |-> Length.Kilometer],
          [symbols |-> {"cm"}, key |-> "centimeter", unit |-> Length.Centimeter],
          [symbols |-> {"mm"}, key |-> "millimeter", unit |-> Length.Millimeter],
          [symbols |-> {"<micro>m"}, key |-> "micrometer", unit |-> Length.Micrometer],
          [symbols |-> {"nm"}, key |-> "nanometer", unit |-> Length.Nanometer],
          [symbols |-> {"in"}, key |-> "inch", unit |-> Length.Inch],
          [symbols |-> {"ft"}, key |-> "foot", unit |-> Length.Foot],
          [symbols |-> {"yd"}, key |-> "yard", unit |-> Length.Yard],
          [symbols |-> {"mi"}, key |-> "mile", unit |-> Length.Mile]>>),
     \* The switch of UnmarshalMass, in source order (src/CODE_OF_CONDUCT.md:955-990).
     mass |->
        (<<[symbols |-> {"kg"}, key |-> "kilogram", unit |-> Mass.Kilogram],
          [symbols |-> {"g"}, key |-> "gram", unit |-> Mass.Gram],
          [symbols |-> {"mg"}, key |-> "milligram", unit |-> Mass.Milligram],
          [symbols |-> {"<micro>g"}, key |-> "microgram", unit |-> Mass.Microgram],
          [symbols |-> {"lb"}, key |-> "pound", unit |-> Mass.Pound],
          [symbols |-> {"oz"}, key |-> "ounce", unit |-> Mass.Ounce],
          [symbols |-> {"st"}, key |-> "stone", unit |-> Mass.Stone],
          [symbols |-> {"t"}, key |-> "metric_ton", unit |-> Mass.MetricTon],
          [symbols |-> {"ton"}, key |-> "ton", unit |-> Mass.Ton]>>),
     \* The switch of UnmarshalDuration, in source order (src/CODE_OF_CONDUCT.md:998-1029).
     duration |->
        (<<[symbols |-> {"s"}, key |-> "second", unit |-> Duration.Second],
          [symbols |-> {"min"}, key |-> "minute", unit |-> Duration.Minute],
          [symbols |-> {"h"}, key |-> "hour", unit |-> Duration.Hour],
          [symbols |-> {"d"}, key |-> "day", unit |-> Duration.Day],
          [symbols |-> {"ms"}, key |-> "millisecond", unit |-> Duration.Millisecond],
          [symbols |-> {"<micro>s"}, key |-> "microsecond", unit |-> Duration.Microsecond],
          [symbols |-> {"ns"}, key |-> "nanosecond", unit |-> Duration.Nanosecond]>>),
     \* The switch of UnmarshalAngle, in source order (src/CODE_OF_CONDUCT.md:1037-1066).
     angle |->
        (<<[symbols |-> {"rad"}, key |-> "radian", unit |-> Angle.Radian],
          [symbols |-> {"<deg>"}, key |-> "degree", unit |-> Angle.Degree],
          [symbols |-> {"<prime>"}, key |-> "arcminute", unit |-> Angle.Arcminute],
          [symbols |-> {"<dprime>"}, key |-> "arcsecond", unit |-> Angle.Arcsecond],
          [symbols |-> {"rev"}, key |-> "revolution", unit |-> Angle.Revolution],
          [symbols |-> {"grad"}, key |-> "gradian", unit |-> Angle.Gradian]>>),
     \* The switch of UnmarshalArea, in source order (src/CODE_OF_CONDUCT.md:1074-1111).
     area |->
        (<<[symbols |-> {"m<sup2>"}, key |-> "square_meter", unit |-> Area.SquareMeter],
          [symbols |-> {"km<sup2>"}, key |-> "square_kilometer", unit |-> Area.SquareKilometer],
          [symbols |-> {"cm<sup2>"}, key |-> "square_centimeter", unit |-> Area.SquareCentimeter],
          [symbols |-> {"mm<sup2>"}, key |-> "square_millimeter", unit |-> Area.SquareMillimeter],
          [symbols |-> {"in<sup2>"}, key |-> "square_inch", unit |-> Area.SquareInch],
          [symbols |-> {"ft<sup2>"}, key |-> "square_foot", unit |-> Area.SquareFoot],
          [symbols |-> {"yd<sup2>"}, key |-> "square_yard", unit |-> Area.SquareYard],
          [symbols |-> {"mi<sup2>"}, key |-> "square_mile", unit |-> Area.SquareMile],
          [symbols |-> {"ac"}, key |-> "acre", unit |-> Area.Acre],
          [symbols |-> {"ha"}, key |-> "hectare", unit |-> Area.Hectare]>>),
     \* The switch of UnmarshalVolume, in source order (src/CODE_OF_CONDUCT.md:1119-1164).
     volume |->
        (<<[symbols |-> {"m<sup3>"}, key |-> "cubic_meter", unit |-> Volume.CubicMeter],
          [symbols |-> {"km<sup3>"}, key |-> "cubic_kilometer", unit |-> Volume.CubicKilometer],
          [symbols |-> {"cm<sup3>"}, key |-> "cubic_centimeter", unit |-> Volume.CubicCentimeter],
          [symbols |-> {"mm<sup3>"}, key |-> "cubic_millimeter", unit |-> Volume.CubicMillimeter],
          [symbols |-> {"L"}, key |-> "liter", unit |-> Volume.Liter],
          [symbols |-> {"mL"}, key |-> "milliliter", unit |-> Volume.Milliliter],
          [symbols |-> {"in<sup3>"}, key |-> "cubic_inch", unit |-> Volume.CubicInch],
          [symbols |-> {"ft<sup3>"}, key |-> "cubic_foot", unit |-> Volume.CubicFoot],
          [symbols |-> {"yd<sup3>"}, key |-> "cubic_yard", unit |-> Volume.CubicYard],
          [symbols |-> {"gal"}, key |-> "gallon", unit |-> Volume.Gallon],
          [symbols |-> {"qt"}, key |-> "quart", unit |-> Volume.Quart],
          [symbols |-> {"pt"}, key |-> "pint", unit |-> Volume.Pint],
          [symbols |-> {"cup"}, key |-> "cup", unit |-> Volume.Cup],
          [symbols |-> {"fl oz"}, key |-> "fluid_ounce", unit |-> Volume.FluidOunce]>>),
     \* The switch of UnmarshalAcceleration, in source order (src/CODE_OF_CONDUCT.md:1172-1195).
     acceleration |->
        (<<[symbols |-> {"m/s<sup2>"}, key |-> "meters_per_second_squared", unit |-> Acceleration.MetersPerSecondSquared],
          [symbols |-> {"g"}, key |-> "g", unit |-> Acceleration.G],
          [symbols |-> {"ft/s<sup2>"}, key |-> "feet_per_second_squared", unit |-> Acceleration.FeetPerSecondSquared]>>),
     \* The switch of UnmarshalConcentration, in source order (src/CODE_OF_CONDUCT.md:1203-1228).
     concentration |->
        (<<[symbols |-> {"g/L"}, key |-> "grams_per_liter", unit |-> Concentration.GramsPerLiter],
          [symbols |-> {"mg/L"}, key |-> "milligrams_per_liter", unit |-> Concentration.MilligramsPerLiter],
          [symbols |-> {"ppm"}, key |-> "parts_per_million", unit |-> Concentration.PartsPerMillion],
          [symbols |-> {"ppb"}, key |-> "parts_per_billion", unit |-> Concentration.PartsPerBillion]>>),
     \* The switch of UnmarshalDispersion, in source order (src/CODE_OF_CONDUCT.md:1236-1261).
     dispersion |->
        (<<[symbols |-> {"ppm"}, key |-> "parts_per_million", unit |-> Dispersion.PartsPerMillion],
          [symbols |-> {"ppb"}, key |-> "parts_per_billion", unit |-> Dispersion.PartsPerBillion],
          [symbols |-> {"ppt"}, key |-> "parts_per_trillion", unit |-> Dispersion.PartsPerTrillion],
          [symbols |-> {"%"}, key |-> "percent", unit |-> Dispersion.Percent]>>),
     \* The switch of UnmarshalElectricCharge, in source order (src/CODE_OF_CONDUCT.md:1269-1296).
     electric_charge |->
        (<<[symbols |-> {"C"}, key |-> "coulomb", unit |-> ElectricCharge.Coulomb],
          [symbols |-> {"mC"}, key |-> "millicoulomb", unit |-> ElectricCharge.Millicoulomb],
          [symbols |-> {"<micro>C"}, key |-> "microcoulomb", unit |-> ElectricCharge.Microcoulomb],
          [symbols |-> {"Ah"}, key |-> "ampere_hour", unit |-> ElectricCharge.Ampere_Hour],
          [symbols |-> {"mAh"}, key |-> "milliampere_hour", unit |-> ElectricCharge.Milliampere_Hour]>>),
     \* The switch of UnmarshalElectricCurrent, in source order (src/CODE_OF_CONDUCT.md:1304-1329).
     electric_current |->
        (<<[symbols |-> {"A"}, key |-> "ampere", unit |-> ElectricCurrent.Ampere],
          [symbols |-> {"mA"}, key |-> "milliampere", unit |-> ElectricCurrent.Milliampere],
          [symbols |-> {"<micro>A"}, key |-> "microampere", unit |-> ElectricCurrent.Microampere],
          [symbols |-> {"kA"}, key |-> "kiloampere", unit |-> ElectricCurrent.Kiloampere]>>),
     \* The switch of UnmarshalElectricPotentialDifference, in source order (src/CODE_OF_CONDUCT.md:1372-1399).
     electric_potential_difference |->
        (<<[symbols |-> {"V"}, key |-> "volt", unit |-> ElectricPotentialDifference.Volt],
          [symbols |-> {"mV"}, key |-> "millivolt", unit |-> ElectricPotentialDifference.Millivolt],
          [symbols |-> {"<micro>V"}, key |-> "microvolt", unit |-> ElectricPotentialDifference.Microvolt],
          [symbols |-> {"kV"}, key |-> "kilovolt", unit |-> ElectricPotentialDifference.Kilovolt],
          [symbols |-> {"MV"}, key |-> "megavolt", unit |-> ElectricPotentialDifference.Megavolt]>>),
     \* The switch of UnmarshalInformation, in source order (src/CODE_OF_CONDUCT.md:1407-1448).
     information |->
        (<<[symbols |-> {"bit"}, key |-> "bit", unit |-> Information.Bit],
          [symbols |-> {"B"}, key |-> "byte", unit |-> Information.Byte],
          [symbols |-> {"KB"}, key |-> "kilobyte", unit |-> Information.Kilobyte],
          [symbols |-> {"MB"}, key |-> "megabyte", unit |-> Information.Megabyte],
          [symbols |-> {"GB"}, key |-> "gigabyte", unit |-> Information.Gigabyte],
          [symbols |-> {"TB"}, key |-> "terabyte", unit |-> Information.Terabyte],
          [symbols |-> {"PB"}, key |-> "petabyte", unit |-> Information.Petabyte],
          [symbols |-> {"KiB"}, key |-> "kibibyte", unit |-> Information.Kibibyte],
          [symbols |-> {"MiB"}, key |-> "mebibyte", unit |-> Information.Mebibyte],
          [symbols |-> {"GiB"}, key |-> "gibibyte", unit |-> Information.Gibibyte],
          [symbols |-> {"TiB"}, key |-> "tebibyte", unit |-> Information.Tebibyte],
          [symbols |-> {"PiB"}, key |-> "pebibyte", unit |-> Information.Pebibyte]>>),
     \* The switch of UnmarshalFrequency, in source order (src/CODE_OF_CONDUCT.md:1456-1485).
     frequency |->
        (<<[symbols |-> {"Hz"}, key |-> "hertz", unit |-> Frequency.Hertz],
          [symbols |-> {"kHz"}, key |-> "kilohertz", unit |-> Frequency.Kilohertz],
          [symbols |-> {"MHz"}, key |-> "megahertz", unit |-> Frequency.Megahertz],
          [symbols |-> {"GHz"}, key |-> "gigahertz", unit |-> Frequency.Gigahertz],
          [symbols |-> {"THz"}, key |-> "terahertz", unit |-> Frequency.Terahertz],
          [symbols |-> {"rpm"}, key |-> "rpm", unit |-> Frequency.RPM]>>),
     \* The switch of UnmarshalIlluminance, in source order (src/CODE_OF_CONDUCT.md:1493-1518).
     illuminance |->
        (<<[symbols |-> {"lx"}, key |-> "lux", unit |-> Illuminance.Lux],
          [symbols |-> {"fc"}, key |-> "foot_candle", unit |-> Illuminance.FootCandle],
          [symbols |-> {"ph"}, key |-> "phot", unit |-> Illuminance.Phot],
          [symbols |-> {"nx"}, key |-> "nox", unit |-> Illuminance.Nox]>>),
     \* The switch of UnmarshalFuelEfficiency, in source order (src/CODE_OF_CONDUCT.md:1562-1585).
     fuel_efficiency |->
        (<<[symbols |-> {"km/L"}, key |-> "kilometers_per_liter", unit |-> FuelEfficiency.KilometersPerLiter],
          [symbols |-> {"mpg"}, key |-> "miles_per_gallon", unit |-> FuelEfficiency.MilesPerGallon],
          [symbols |-> {"L/100km"}, key |-> "liters_per_100_kilometers", unit |-> FuelEfficiency.LitersPer100Kilometers]>>),
     \* The switch of UnmarshalSpeed, in source order (src/CODE_OF_CONDUCT.md:1337-1364).
     speed |->
        (<<[symbols |-> {"m/s"}, key |-> "meters_per_second", unit |-> Speed.MetersPerSecond],
          [symbols |-> {"km/h"}, key |-> "kilometers_per_hour", unit |-> Speed.KilometersPerHour],
          [symbols |-> {"mph"}, key |-> "miles_per_hour", unit |-> Speed.MilesPerHour],
          [symbols |-> {"ft/s"}, key |-> "feet_per_second", unit |-> Speed.FeetPerSecond],
          [symbols |-> {"kn"}, key |-> "knot", unit |-> Speed.Knot]>>)
    ]

\* The by-symbol table each LookupDUnit consults.
UnitsBySymbol ==
    [
     \* temperatureUnitsBySymbol (src/unit_registry.go:8-14).
     temperature |->
        (("<deg>C" :> Temperature.Celsius) @@
        ("C" :> Temperature.Celsius) @@
        ("<deg>F" :> Temperature.Fahrenheit) @@
        ("F" :> Temperature.Fahrenheit) @@
        ("K" :> Temperature.Kelvin)),
     \* pressureUnitsBySymbol (src/unit_registry.go:16-23).
     pressure |->
        (("Pa" :> Pressure.Pascal) @@
        ("kPa" :> Pressure.Kilopascal) @@
        ("bar" :> Pressure.Bar) @@
        ("psi" :> Pressure.PSI) @@
        ("inH<sub2>O" :> Pressure.InchH2O) @@
        ("inH2O" :> Pressure.InchH2O)),
     \* flowRateUnitsBySymbol (src/unit_registry.go:25-29).
     flowrate |->
        (("m<sup3>/h" :> FlowRate.CubicMetersPerHour) @@
        ("L/s" :> FlowRate.LitersPerSecond) @@
        ("CFM" :> FlowRate.CFM)),
     \* powerUnitsBySymbol (src/unit_registry.go:31-35).
     power |->
        (("W" :> Power.Watt) @@
        ("kW" :> Power.Kilowatt) @@
        ("BTU/h" :> Power.BTUPerHour)),
     \* energyUnitsBySymbol (src/unit_registry.go:37-41).
     energy |->
        (("J" :> Energy.Joule) @@
        ("kWh" :> Energy.KilowattHour) @@
        ("BTU" :> Energy.BTU)),
     \* lengthUnitsBySymbol (src/unit_registry.go:43-54).
     length |->
        (("m" :> Length.Meter) @@
        ("km" :> Length.Kilometer) @@
        ("cm" :> Length.Centimeter) @@
        ("mm" :> Length.Millimeter) @@
        ("<micro>m" :> Length.Micrometer) @@
        ("nm" :> Length.Nanometer) @@
        ("in" :> Length.Inch) @@
        ("ft" :> Length.Foot) @@
        ("yd" :> Length.Yard) @@
        ("mi" :> Length.Mile)),
     \* massUnitsBySymbol (src/unit_registry.go:56-66).
     mass |->
        (("kg" :> Mass.Kilogram) @@
        ("g" :> Mass.Gram) @@
        ("mg" :> Mass.Milligram) @@
        ("<micro>g" :> Mass.Microgram) @@
        ("lb" :> Mass.Pound) @@
        ("oz" :> Mass.Ounce) @@
        ("st" :> Mass.Stone) @@
        ("t" :> Mass.MetricTon) @@
        ("ton" :> Mass.Ton)),
     \* durationUnitsBySymbol (src/unit_registry.go:68-76).
     duration |->
        (("s" :> Duration.Second) @@
        ("min" :> Duration.Minute) @@
        ("h" :> Duration.Hour) @@
        ("d" :> Duration.Day) @@
        ("ms" :> Duration.Millisecond) @@
        ("<micro>s" :> Duration.Microsecond) @@
        ("ns" :> Duration.Nanosecond)),
     \* angleUnitsBySymbol (src/unit_registry.go:78-85).
     angle |->
        (("rad" :> Angle.Radian) @@
        ("<deg>" :> Angle.Degree) @@
        ("<prime>" :> Angle.Arcminute) @@
        ("<dprime>" :> Angle.Arcsecond) @@
        ("rev" :> Angle.Revolution) @@
        ("grad" :> Angle.Gradian)),
     \* areaUnitsBySymbol (src/unit_registry.go:87-98).
     area |->
        (("m<sup2>" :> Area.SquareMeter) @@
        ("km<sup2>" :> Area.SquareKilometer) @@
        ("cm<sup2>" :> Area.SquareCentimeter) @@
        ("mm<sup2>" :> Area.SquareMillimeter) @@
        ("in<sup2>" :> Area.SquareInch) @@
        ("ft<sup2>" :> Area.SquareFoot) @@
        ("yd<sup2>" :> Area.SquareYard) @@
        ("mi<sup2>" :> Area.SquareMile) @@
        ("ac" :> Area.Acre) @@
        ("ha" :> Area.Hectare)),
     \* volumeUnitsBySymbol (src/unit_registry.go:100-115).
     volume |->
        (("m<sup3>" :> Volume.CubicMeter) @@
        ("km<sup3>" :> Volume.CubicKilometer) @@
        ("cm<sup3>" :> Volume.CubicCentimeter) @@
        ("mm<sup3>" :> Volume.CubicMillimeter) @@
        ("L" :> Volume.Liter) @@
        ("mL" :> Volume.Milliliter) @@
        ("in<sup3>" :> Volume.CubicInch) @@
        ("ft<sup3>" :> Volume.CubicFoot) @@
        ("yd<sup3>" :> Volume.CubicYard) @@
        ("gal" :> Volume.Gallon) @@
        ("qt" :> Volume.Quart) @@
        ("pt" :> Volume.Pint) @@
        ("cup" :> Volume.Cup) @@
        ("fl oz" :> Volume.FluidOunce)),
     \* accelerationUnitsBySymbol (src/unit_registry.go:117-121).
     acceleration |->
        (("m/s<sup2>" :> Acceleration.MetersPerSecondSquared) @@
        ("g" :> Acceleration.G) @@
        ("ft/s<sup2>" :> Acceleration.FeetPerSecondSquared)),
     \* concentrationUnitsBySymbol (src/unit_registry.go:123-128).
     concentration |->
        (("g/L" :> Concentration.GramsPerLiter) @@
        ("mg/L" :> Concentration.MilligramsPerLiter) @@
        ("ppm" :> Concentration.PartsPerMillion) @@
        ("ppb" :> Concentration.PartsPerBillion)),
     \* dispersionUnitsBySymbol (src/unit_registry.go:130-135).
     dispersion |->
        (("ppm" :> Dispersion.PartsPerMillion) @@
        ("ppb" :> Dispersion.PartsPerBillion) @@
        ("ppt" :> Dispersion.PartsPerTrillion) @@
        ("%" :> Dispersion.Percent)),
     \* speedUnitsBySymbol (src/unit_registry.go:137-143).
     speed |->
        (("m/s" :> Speed.MetersPerSecond) @@
        ("km/h" :> Speed.KilometersPerHour) @@
        ("mph" :> Speed.MilesPerHour) @@
        ("ft/s" :> Speed.FeetPerSecond) @@
        ("kn" :> Speed.Knot)),
     \* electricChargeUnitsBySymbol (src/unit_registry.go:145-151).
     electric_charge |->
        (("C" :> ElectricCharge.Coulomb) @@
        ("mC" :> ElectricCharge.Millicoulomb) @@
        ("<micro>C" :> ElectricCharge.Microcoulomb) @@
        ("Ah" :> ElectricCharge.Ampere_Hour) @@
        ("mAh" :> ElectricCharge.Milliampere_Hour)),
     \* electricCurrentUnitsBySymbol (src/unit_registry.go:153-158).
     electric_current |->
        (("A" :> ElectricCurrent.Ampere) @@
        ("mA" :> ElectricCurrent.Milliampere) @@
        ("<micro>A" :> ElectricCurrent.Microampere) @@
        ("kA" :> ElectricCurrent.Kiloampere)),
     \* electricPotentialDifferenceUnitsBySymbol (src/unit_registry.go:160-166).
     electric_potential_difference |->
        (("V" :> ElectricPotentialDifference.Volt) @@
        ("mV" :> ElectricPotentialDifference.Millivolt) @@
        ("<micro>V" :> ElectricPotentialDifference.Microvolt) @@
        ("kV" :> ElectricPotentialDifference.Kilovolt) @@
        ("MV" :> ElectricPotentialDifference.Megavolt)),
     \* frequencyUnitsBySymbol (src/unit_registry.go:168-175).
     frequency |->
        (("Hz" :> Frequency.Hertz) @@
        ("kHz" :> Frequency.Kilohertz) @@
        ("MHz" :> Frequency.Megahertz) @@
        ("GHz" :> Frequency.Gigahertz) @@
        ("THz" :> Frequency.Terahertz) @@
        ("rpm" :> Frequency.RPM)),
     \* illuminanceUnitsBySymbol (src/unit_registry.go:177-182).
     illuminance |->
        (("lx" :> Illuminance.Lux) @@
        ("fc" :> Illuminance.FootCandle) @@
        ("ph" :> Illuminance.Phot) @@
        ("nx" :> Illuminance.Nox)),
     \* informationUnitsBySymbol (src/unit_registry.go:184-197).
     information |->
        (("bit" :> Information.Bit) @@
        ("B" :> Information.Byte) @@
        ("KB" :> Information.Kilobyte) @@
        ("MB" :> Information.Megabyte) @@
        ("GB" :> Information.Gigabyte) @@
        ("TB" :> Information.Terabyte) @@
        ("PB" :> Information.Petabyte) @@
        ("KiB" :> Information.Kibibyte) @@
        ("MiB" :> Information.Mebibyte) @@
        ("GiB" :> Information.Gibibyte) @@
        ("TiB" :> Information.Tebibyte) @@
        ("PiB" :> Information.Pebibyte)),
     \* fuelEfficiencyUnitsBySymbol (src/unit_registry.go:199-203).
     fuel_efficiency |->
        (("km/L" :> FuelEfficiency.KilometersPerLiter) @@
        ("mpg" :> FuelEfficiency.MilesPerGallon) @@
        ("L/100km" :> FuelEfficiency.LitersPer100Kilometers))
    ]

\* The by-key registries of the compact codecs.
UnitsByKey ==
    [
     \* temperatureUnitsByKey (src/quantity_test.go:169-173).
     temperature |->
        (("temperature_celsius" :> Temperature.Celsius) @@
        ("temperature_fahrenheit" :> Temperature.Fahrenheit) @@
        ("temperature_kelvin" :> Temperature.Kelvin)),
     \* pressureUnitsByKey (src/quantity_test.go:175-181).
     pressure |->
        (("pressure_pascal" :> Pressure.Pascal) @@
        ("pressure_kilopascal" :> Pressure.Kilopascal) @@
        ("pressure_bar" :> Pressure.Bar) @@
        ("pressure_pounds_per_square_inch" :> Pressure.PSI) @@
        ("pressure_inches_of_water_column" :> Pressure.InchH2O)),
     \* lengthUnitsByKey (src/quantity_test.go:183-194).
     length |->
        (("length_meter" :> Length.Meter) @@
        ("length_kilometer" :> Length.Kilometer) @@
        ("length_centimeter" :> Length.Centimeter) @@
        ("length_millimeter" :> Length.Millimeter) @@
        ("length_micrometer" :> Length.Micrometer) @@
        ("length_nanometer" :> Length.Nanometer) @@
        ("length_inch" :> Length.Inch) @@
        ("length_foot" :> Length.Foot) @@
        ("length_yard" :> Length.Yard) @@
        ("length_mile" :> Length.Mile)),
     \* massUnitsByKey (src/quantity_test.go:196-206).
     mass |->
        (("mass_kilogram" :> Mass.Kilogram) @@
        ("mass_gram" :> Mass.Gram) @@
        ("mass_milligram" :> Mass.Milligram) @@
        ("mass_microgram" :> Mass.Microgram) @@
        ("mass_pound" :> Mass.Pound) @@
        ("mass_ounce" :> Mass.Ounce) @@
        ("mass_stone" :> Mass.Stone) @@
        ("mass_metric_ton" :> Mass.MetricTon) @@
        ("mass_ton" :> Mass.Ton)),
     \* durationUnitsByKey (src/quantity_test.go:208-216).
     duration |->
        (("duration_second" :> Duration.Second) @@
        ("duration_minute" :> Duration.Minute) @@
        ("duration_hour" :> Duration.Hour) @@
        ("duration_day" :> Duration.Day) @@
        ("duration_millisecond" :> Duration.Millisecond) @@
        ("duration_microsecond" :> Duration.Microsecond) @@
        ("duration_nanosecond" :> Duration.Nanosecond)),
     \* angleUnitsByKey (src/quantity_test.go:218-225).
     angle |->
        (("angle_radian" :> Angle.Radian) @@
        ("angle_degree" :> Angle.Degree) @@
        ("angle_arcminute" :> Angle.Arcminute) @@
        ("angle_arcsecond" :> Angle.Arcsecond) @@
        ("angle_revolution" :> Angle.Revolution) @@
        ("angle_gradian" :> Angle.Gradian)),
     \* areaUnitsByKey (src/quantity_test.go:227-238).
     area |->
        (("area_square_meter" :> Area.SquareMeter) @@
        ("area_square_kilometer" :> Area.SquareKilometer) @@
        ("area_square_centimeter" :> Area.SquareCentimeter) @@
        ("area_square_millimeter" :> Area.SquareMillimeter) @@
        ("area_square_inch" :> Area.SquareInch) @@
        ("area_square_foot" :> Area.SquareFoot) @@
        ("area_square_yard" :> Area.SquareYard) @@
        ("area_square_mile" :> Area.SquareMile) @@
        ("area_acre" :> Area.Acre) @@
        ("area_hectare" :> Area.Hectare)),
     \* volumeUnitsByKey (src/quantity_test.go:240-255).
     volume |->
        (("volume_cubic_meter" :> Volume.CubicMeter) @@
        ("volume_cubic_kilometer" :> Volume.CubicKilometer) @@
        ("volume_cubic_centimeter" :> Volume.CubicCentimeter) @@
        ("volume_cubic_millimeter" :> Volume.CubicMillimeter) @@
        ("volume_liter" :> Volume.Liter) @@
        ("volume_milliliter" :> Volume.Milliliter) @@
        ("volume_cubic_inch" :> Volume.CubicInch) @@
        ("volume_cubic_foot" :> Volume.CubicFoot) @@
        ("volume_cubic_yard" :> Volume.CubicYard) @@
        ("volume_gallon" :> Volume.Gallon) @@
        ("volume_quart" :> Volume.Quart) @@
        ("volume_pint" :> Volume.Pint) @@
        ("volume_cup" :> Volume.Cup) @@
        ("volume_fluid_ounce" :> Volume.FluidOunce)),
     \* speedUnitsByKey (src/quantity_test.go:257-263).
     speed |->
        (("speed_meters_per_second" :> Speed.MetersPerSecond) @@
        ("speed_kilometers_per_hour" :> Speed.KilometersPerHour) @@
        ("speed_miles_per_hour" :> Speed.MilesPerHour) @@
        ("speed_feet_per_second" :> Speed.FeetPerSecond) @@
        ("speed_knot" :> Speed.Knot)),
     \* accelerationUnitsByKey (src/quantity_test.go:265-269).
     acceleration |->
        (("acceleration_meters_per_second_squared" :> Acceleration.MetersPerSecondSquared) @@
        ("acceleration_g" :> Acceleration.G) @@
        ("acceleration_feet_per_second_squared" :> Acceleration.FeetPerSecondSquared)),
     \* flowRateUnitsByKey (src/quantity_test.go:271-275).
     flowrate |->
        (("flowrate_cubic_meters_per_hour" :> FlowRate.CubicMetersPerHour) @@
        ("flowrate_liters_per_second" :> FlowRate.LitersPerSecond) @@
        ("flowrate_c_f_m" :> FlowRate.CFM)),
     \* powerUnitsByKey (src/quantity_test.go:277-281).
     power |->
        (("power_watt" :> Power.Watt) @@
        ("power_kilowatt" :> Power.Kilowatt) @@
        ("power_b_t_u_per_hour" :> Power.BTUPerHour)),
     \* energyUnitsByKey (src/quantity_test.go:283-287).
     energy |->
        (("energy_joule" :> Energy.Joule) @@
        ("energy_kilowatt_hour" :> Energy.KilowattHour) @@
        ("energy_b_t_u" :> Energy.BTU)),
     \* concentrationUnitsByKey (src/quantity_test.go:289-294).
     concentration |->
        (("concentration_grams_per_liter" :> Concentration.GramsPerLiter) @@
        ("concentration_milligrams_per_liter" :> Concentration.MilligramsPerLiter) @@
        ("concentration_parts_per_million" :> Concentration.PartsPerMillion) @@
        ("concentration_parts_per_billion" :> Concentration.PartsPerBillion)),
     \* dispersionUnitsByKey (src/quantity_test.go:296-301).
     dispersion |->
        (("dispersion_parts_per_million" :> Dispersion.PartsPerMillion) @@
        ("dispersion_parts_per_billion" :> Dispersion.PartsPerBillion) @@
        ("dispersion_parts_per_trillion" :> Dispersion.PartsPerTrillion) @@
        ("dispersion_percent" :> Dispersion.Percent)),
     \* electricChargeUnitsByKey (src/quantity_test.go:303-309).
     electric_charge |->
        (("electric_charge_coulomb" :> ElectricCharge.Coulomb) @@
        ("electric_charge_millicoulomb" :> ElectricCharge.Millicoulomb) @@
        ("electric_charge_microcoulomb" :> ElectricCharge.Microcoulomb) @@
        ("electric_charge_ampere__hour" :> ElectricCharge.Ampere_Hour) @@
        ("electric_charge_milliampere__hour" :> ElectricCharge.Milliampere_Hour)),
     \* electricCurrentUnitsByKey (src/quantity_test.go:311-316).
     electric_current |->
        (("electric_current_ampere" :> ElectricCurrent.Ampere) @@
        ("electric_current_milliampere" :> ElectricCurrent.Milliampere) @@
        ("electric_current_microampere" :> ElectricCurrent.Microampere) @@
        ("electric_current_kiloampere" :> ElectricCurrent.Kiloampere)),
     \* electricPotentialDifferenceUnitsByKey (src/quantity_test.go:318-324).
     electric_potential_difference |->
        (("electric_potential_difference_volt" :> ElectricPotentialDifference.Volt) @@
        ("electric_potential_difference_millivolt" :> ElectricPotentialDifference.Millivolt) @@
        ("electric_potential_difference_microvolt" :> ElectricPotentialDifference.Microvolt) @@
        ("electric_potential_difference_kilovolt" :> ElectricPotentialDifference.Kilovolt) @@
        ("electric_potential_difference_megavolt" :> ElectricPotentialDifference.Megavolt)),
     \* frequencyUnitsByKey (src/quantity_test.go:326-333).
     frequency |->
        (("frequency_hertz" :> Frequency.Hertz) @@
        ("frequency_kilohertz" :> Frequency.Kilohertz) @@
        ("frequency_megahertz" :> Frequency.Megahertz) @@
        ("frequency_gigahertz" :> Frequency.Gigahertz) @@
        ("frequency_terahertz" :> Frequency.Terahertz) @@
        ("frequency_r_p_m" :> Frequency.RPM)),
     \* illuminanceUnitsByKey (src/quantity_test.go:335-340).
     illuminance |->
        (("illuminance_lux" :> Illuminance.Lux) @@
        ("illuminance_foot_candle" :> Illuminance.FootCandle) @@
        ("illuminance_phot" :> Illuminance.Phot) @@
        ("illuminance_nox" :> Illuminance.Nox)),
     \* informationUnitsByKey (src/quantity_test.go:342-355).
     information |->
        (("information_bit" :> Information.Bit) @@
        ("information_byte" :> Information.Byte) @@
        ("information_kilobyte" :> Information.Kilobyte) @@
        ("information_megabyte" :> Information.Megabyte) @@
        ("information_gigabyte" :> Information.Gigabyte) @@
        ("information_terabyte" :> Information.Terabyte) @@
        ("information_petabyte" :> Information.Petabyte) @@
        ("information_kibibyte" :> Information.Kibibyte) @@
        ("information_mebibyte" :> Information.Mebibyte) @@
        ("information_gibibyte" :> Information.Gibibyte) @@
        ("information_tebibyte" :> Information.Tebibyte) @@
        ("information_pebibyte" :> Information.Pebibyte)),
     \* fuelEfficiencyUnitsByKey (src/quantity_test.go:357-361).
     fuel_efficiency |->
        (("fuel_efficiency_kilometers_per_liter" :> FuelEfficiency.KilometersPerLiter) @@
        ("fuel_efficiency_miles_per_gallon" :> FuelEfficiency.MilesPerGallon) @@
        ("fuel_efficiency_liters_per100_kilometers" :> FuelEfficiency.LitersPer100Kilometers))
    ]

\* A lookup that compares symbols without regard to case.
LookupDUnitFolded(D, symbol) ==
    LET found == {s \in DOMAIN UnitsBySymbol[D] : EqualFold(s, symbol)}
    IN  IF found = {} THEN [unit |-> ZeroUnit, ok |-> FALSE]
        ELSE [unit |-> UnitsBySymbol[D][CHOOSE s \in found : TRUE], ok |-> TRUE]

\* LookupTemperatureUnit .. LookupFuelEfficiencyUnit: LookupDUnit(symbol).
LookupDUnit(D, symbol) ==
    IF symbol \in DOMAIN UnitsBySymbol[D]
    THEN [unit |-> UnitsBySymbol[D][symbol], ok |-> TRUE]
    ELSE [unit |-> ZeroUnit, ok |-> FALSE]

\* Indexes of the cases of a switch that the parsed payload satisfies.
Matching(p, cases) ==
    {i \in 1..Len(cases) : p.Symbol \in cases[i].symbols \/ matchUnitByKey(p, cases[i].key)}

Min(S) == CHOOSE x \in S : \A y \in S : x <= y

\* The switch statement: the unit of the first satisfied case.
SwitchUnit(p, cases) == cases[Min(Matching(p, cases))].unit

UnmarshalGeneralUnit(p) ==
    IF p.Symbol = "unit" \/ matchUnitByKey(p, "unit") THEN General.Unit
    ELSE LET symbolOrKey == IF p.Symbol = "" /\ p.Key # ""
                            THEN parseUnitKey(p.Key)[2] ELSE p.Symbol
             name == IF p.Name = "" THEN symbolOrKey ELSE p.Name
         IN  NewGeneralUnit(symbolOrKey, name)

\* A default branch that answers with the first-listed unit.
FirstListedUnit(D) == Ok(New(D, Zero, UnmarshalCases[D][1].unit))

\* The outcome of the default branch of a unit switch.
UnknownUnit(D) == Error(D, "UnknownUnit")

\* A codec without its dimension guard.
NoDimensionGuard(D, p) == FALSE

\* The dimension guard of UnmarshalD.
DimensionGuard(D, p) == p.Dimension # D

\* UnmarshalTemperature, UnmarshalPressure, ... : UnmarshalD for dimension D.
UnmarshalD(D, doc) ==
    LET p == parseMeasurement(doc)
    IN  IF p.err # "" THEN Error(D, p.err)
        ELSE IF DimensionGuard(D, p) THEN Error(D, "DimensionMismatch")
        ELSE IF D = "general" THEN Ok(New(D, p.Value, UnmarshalGeneralUnit(p)))
        ELSE IF Matching(p, UnmarshalCases[D]) = {} THEN UnknownUnit(D)
        ELSE IF D = "fuel_efficiency"
        THEN NewFuelEfficiency(p.Value, SwitchUnit(p, UnmarshalCases[D]))
        ELSE Ok(New(D, p.Value, SwitchUnit(p, UnmarshalCases[D])))

\* marshalCompactGeneric: the unit is the key, the symbol is optional.
marshalCompactGeneric(m, includeSymbol) ==
    Document(JNumber(m.Value), JString(unitKey(m.Unit.dimension, m.Unit.name)),
             Absent, Absent, Absent, Absent,
             IF includeSymbol THEN JString(m.Unit.symbol) ELSE Absent, Absent)

\* UnmarshalCompactTemperature .. UnmarshalCompactFuelEfficiency: the compact
\* codec of a dimension D that has a by-key registry.
UnmarshalCompactD(D, doc) ==
    IF ~doc.wellFormed \/ ~DecodesLegacyCompact(doc) THEN Error(D, "MalformedJSON")
    ELSE IF AsString(doc.unit).s \notin DOMAIN UnitsByKey[D] THEN UnknownUnit(D)
    ELSE IF D = "fuel_efficiency"
    THEN NewFuelEfficiency(AsFloat(doc.value).n, UnitsByKey[D][AsString(doc.unit).s])
    ELSE Ok(New(D, AsFloat(doc.value).n, UnitsByKey[D][AsString(doc.unit).s]))

\* The dimensions UnmarshalMeasurement dispatches on.
DispatchDimensions == DOMAIN UnmarshalCases \cup {"general"}

AnyMeasurement(quantity, dimension) ==
    [status |-> "ok", err |-> "", q |-> quantity, dimension |-> dimension]

NoAnswer == [found |-> "none", q |-> ZeroQuantity("")]
Answer(found, quantity) == [found |-> found, q |-> quantity]

\* An accessor that asserts nothing about the wrapped quantity's type.
AsAnyD(am, D) == Answer("true", [am.q EXCEPT !.T = D])

\* AsTemperature .. AsGeneral: a type assertion on the wrapped value.
AsD(am, D) ==
    IF am.q.T = D THEN Answer("true", am.q) ELSE Answer("false", ZeroQuantity(D))

\* A fallback that hands back the original error.
fallbackToGeneralReturnsError(value, symbol, name) == Error("", "UnknownUnit")

fallbackToGeneral(value, symbol, name) ==
    AnyMeasurement(New("general", value, NewGeneralUnit(symbol, name)), "general")

\* A fallback that prefers the key's unit name to the payload's symbol.
createFallbackKeyFirst(doc) ==
    LET info == unmarshalUnitInfo(doc)
        symbol == IF info.key # "" THEN parseUnitKey(info.key)[2] ELSE info.symbol
        name == IF info.name = "" THEN symbol ELSE info.name
    IN  fallbackToGeneral(unmarshalValue(doc).n, symbol, name)

\* The createFallback closure of UnmarshalMeasurement: both errors are dropped.
createFallback(doc) ==
    LET info == unmarshalUnitInfo(doc)
        symbol == IF info.key # "" /\ info.symbol = ""
                  THEN parseUnitKey(info.key)[2] ELSE info.symbol
        name == IF info.name = "" THEN symbol ELSE info.name
    IN  fallbackToGeneral(unmarshalValue(doc).n, symbol, name)

UnmarshalMeasurement(doc) ==
    LET d == detectFormat(doc)
    IN  IF d.err # "" THEN Error("", d.err)
        ELSE IF d.dimension = "general"
        THEN LET m == UnmarshalD("general", doc)
             IN  IF m.status # "ok" THEN m ELSE AnyMeasurement(m.q, "general")
        ELSE IF d.dimension \in DispatchDimensions
        THEN LET m == UnmarshalD(d.dimension, doc)
             IN  CASE m.status = "panic" -> m
                   [] m.status = "error" -> createFallback(doc)
                   [] OTHER -> AnyMeasurement(m.q, d.dimension)
        ELSE createFallback(doc)

\* lookupUnit[T](dimension, symbol): the unit, or the error.
lookupUnit(T, dimension, symbol) ==
    IF dimension \notin DOMAIN UnitsBySymbol \cup {"general"}
    THEN [err |-> "UnknownDimension", unit |-> ZeroUnit]
    ELSE IF dimension # "general" /\ symbol \notin DOMAIN UnitsBySymbol[dimension]
    THEN [err |-> "UnknownUnit", unit |-> ZeroUnit]
    ELSE IF dimension # T
    THEN [err |-> "TypeMismatch", unit |-> ZeroUnit]
    ELSE [err |-> "",
          unit |-> IF dimension = "general" THEN NewGeneralUnit(symbol, symbol)
                   ELSE UnitsBySymbol[dimension][symbol]]

\* json.Unmarshal into the anonymous struct of Quantity.UnmarshalJSON.
DecodesQuantity(doc) ==
    /\ doc.wellFormed
    /\ AsFloat(doc.value).ok
    /\ doc.unit.t \in {"absent", "null", "object"}
    /\ AsString(doc.unit_name).ok /\ AsString(doc.unit_symbol).ok
    /\ AsString(doc.dimension).ok

\* Quantity[T].UnmarshalJSON on receiver m: the error and the receiver afterwards.
QuantityUnmarshalJSON(m, doc) ==
    IF ~DecodesQuantity(doc) THEN [err |-> "MalformedJSON", m |-> m]
    ELSE LET assigned == [m EXCEPT !.Value = AsFloat(doc.value).n]
             found == lookupUnit(m.T, AsString(doc.dimension).s, AsString(doc.unit_symbol).s)
         IN  IF found.err # "" THEN [err |-> found.err, m |-> assigned]
             ELSE [err |-> "", m |-> [assigned EXCEPT !.Unit = found.unit]]

-----------------------------------------------------------------------------
(* The calling program: it builds a quantity and marshals it, or receives  *)
(* a document from outside, applies one operation and starts over.         *)

\* Values of the README's and the tests' examples.
ExampleValues == {5, 22}

Values == {Rat(v) : v \in (-1..MaxValue) \cup ExampleValues}

\* Dimensions whose conversions stay within 32-bit integer arithmetic.
ExactDimensions == {"temperature", "fuel_efficiency", "general"}

PayloadNumbers == {JNumber(Rat(10 * i)) : i \in 0..MaxPayloadNumber}

ValueMembers == PayloadNumbers \cup {Absent, Null, JString("not a number")}

UnitStrings ==
    {"warp_factor", "temperature_celsius", "temperature_CELSIUS", "temperature_unknown",
     "temperature", "pressure_psi", "electric_current_ampere",
     "fuel_efficiency_liters_per_100_kilometers", "general_widget", ""}

Keys ==
    {Absent, JNumber(One), JString("temperature_celsius"),
     JString("temperature_unknown"), JString("pressure_kilopascal")}

Symbols ==
    {Absent, JNumber(One), JString("<deg>C"), JString("C"), JString("kPa"),
     JString("xyz"), JString("L/100km")}

Names == {Absent, JString("X")}

DimensionMembers ==
    {Absent, JNumber(One), JString("temperature"), JString("invalid_dimension"),
     JString("fuel_efficiency")}

\* Documents whose unit member is not an object.
StringUnitPayloads ==
    {Document(v, u, Absent, Absent, Absent, Absent, s, Absent) :
        v \in ValueMembers,
        u \in {JString(x) : x \in UnitStrings} \cup {Null, JNumber(One), Absent},
        s \in {Absent, JNumber(One), JString("<deg>C"), JString("xyz")}}

\* Documents whose unit member is an object, with a number as value.
ObjectUnitPayloads ==
    {Document(JNumber(Rat(10)), JObject, k, s, n, ud, Absent, td) :
        k \in Keys, s \in Symbols, n \in Names,
        ud \in DimensionMembers, td \in DimensionMembers}

\* Documents whose unit member is an object, with any value member.
ObjectValuePayloads ==
    {Document(v, JObject, k, s, n, Absent, Absent, td) :
        v \in ValueMembers,
        k \in {Absent, JString("temperature_celsius")},
        s \in {Absent, JString("<deg>C"), JString("xyz"), JString("L/100km")},
        n \in {JString("X"), JNumber(One)},
        td \in DimensionMembers \cup {JString("general")}}

\* Pressure documents that carry a unit symbol beside a unit key.
SymbolAndKeyPayloads ==
    {Document(JNumber(Rat(10)), JObject, JString("pressure_kilopascal"), JString(s),
              Absent, Absent, Absent, Absent) : s \in {"Pa", "bar"}}
    \cup {Document(JNumber(Rat(10)), JString("pressure_psi"), Absent, Absent,
                   Absent, Absent, JString("Pa"), Absent)}

Payloads ==
    {Malformed} \cup StringUnitPayloads \cup ObjectUnitPayloads \cup ObjectValuePayloads
    \cup SymbolAndKeyPayloads

\* The type parameters tried on a document, besides the marshalled
\* quantity's own.
ProbeDimensions ==
    {"temperature", "pressure", "electric_charge", "fuel_efficiency", "general"}

\* Units of the right-hand operand or target: the units of the receiver's
\* type, and values of that type whose embedded BaseUnit has another dimension.
OperandUnits(m) ==
    (IF m.T \in ExactDimensions THEN UnitsOf(m.T) ELSE {m.Unit})
    \cup {u \in UNION {UnitsOf(D) : D \in ProbeDimensions \ {m.T}} : u.isBase}
    \cup {ZeroUnit}

MaxOperand == 1

OperandValues == {Rat(v) : v \in 0..MaxOperand}

Call(op, T, unit, other) == [op |-> op, T |-> T, unit |-> unit, other |-> other]
NoCall == Call("none", "", ZeroUnit, ZeroQuantity(""))

Init ==
    /\ phase = "idle"
    /\ q = ZeroQuantity("")
    /\ data = Malformed
    /\ origin = "none"
    /\ call = NoCall
    /\ res = NoOutcome
    /\ ans = NoAnswer
    /\ fn = "none"
    /\ arg = <<>>
    /\ out = <<>>

\* New(v, U) for a predefined unit U.
NewQuantity ==
    /\ phase = "idle"
    /\ \E D \in Dimensions : \E u \in UnitsOf(D) : \E v \in Values :
          q' = New(D, v, u)
    /\ phase' = "built"
    /\ UNCHANGED <<data, origin, call, res, ans, fn, arg, out>>

\* MarshalWithFormat(q, f).
Marshal ==
    /\ phase = "built"
    /\ \E f \in Formats :
          /\ data' = MarshalWithFormat(q, f)
          /\ origin' = f
    /\ phase' = "wire"
    /\ UNCHANGED <<q, call, res, ans, fn, arg, out>>

\* json.Marshal(q), which calls Quantity.MarshalJSON.
MarshalJSON ==
    /\ phase = "built"
    /\ data' = QuantityMarshalJSON(q)
    /\ origin' = "json"
    /\ phase' = "wire"
    /\ UNCHANGED <<q, call, res, ans, fn, arg, out>>

\* A document arrives from outside.
Receive ==
    /\ phase = "idle"
    /\ \E doc \in Payloads : data' = doc
    /\ origin' = "external"
    /\ phase' = "wire"
    /\ UNCHANGED <<q, call, res, ans, fn, arg, out>>

TypeParameters ==
    CASE origin = "external" -> ProbeDimensions
      [] origin = "json" -> {q.T}
      [] OTHER -> ProbeDimensions \cup {q.T}

CallUnmarshalD ==
    /\ phase = "wire"
    /\ \E D \in TypeParameters :
          /\ call' = Call("UnmarshalD", D, ZeroUnit, ZeroQuantity(""))
          /\ res' = UnmarshalD(D, data)
    /\ phase' = "done"
    /\ UNCHANGED <<q, data, origin, ans, fn, arg, out>>

CallUnmarshalMeasurement ==
    /\ phase = "wire"
    /\ call' = Call("UnmarshalMeasurement", "", ZeroUnit, ZeroQuantity(""))
    /\ res' = UnmarshalMeasurement(data)
    /\ phase' = "done"
    /\ UNCHANGED <<q, data, origin, ans, fn, arg, out>>

\* json.Unmarshal(data, &m) for a zero Quantity[T] m.
CallQuantityUnmarshalJSON ==
    /\ phase = "wire"
    /\ \E T \in TypeParameters :
          LET r == QuantityUnmarshalJSON(ZeroQuantity(T), data)
          IN  /\ call' = Call("Quantity.UnmarshalJSON", T, ZeroUnit, ZeroQuantity(""))
              /\ res' = [status |-> IF r.err = "" THEN "ok" ELSE "error",
                         err |-> r.err, q |-> r.m, dimension |-> ""]
    /\ phase' = "done"
    /\ UNCHANGED <<q, data, origin, ans, fn, arg, out>>

CallConvertTo ==
    /\ phase = "built"
    /\ \E unit \in OperandUnits(q) :
          /\ call' = Call("ConvertTo", q.T, unit, ZeroQuantity(""))
          /\ res' = ConvertTo(q, unit)
    /\ phase' = "done"
    /\ UNCHANGED <<q, data, origin, ans, fn, arg, out>>

CallAdd ==
    /\ phase = "built"
    /\ \E unit \in OperandUnits(q) : \E v \in OperandValues :
          /\ call' = Call("Add", q.T, ZeroUnit, Quantity(q.T, v, unit))
          /\ res' = Add(q, Quantity(q.T, v, unit))
    /\ phase' = "done"
    /\ UNCHANGED <<q, data, origin, ans, fn, arg, out>>

CallSubtract ==
    /\ phase = "built"
    /\ \E unit \in OperandUnits(q) : \E v \in OperandValues :
          /\ call' = Call("Subtract", q.T, ZeroUnit, Quantity(q.T, v, unit))
          /\ res' = Subtract(q, Quantity(q.T, v, unit))
    /\ phase' = "done"
    /\ UNCHANGED <<q, data, origin, ans, fn, arg, out>>

\* q.ConvertTo(unit).ConvertTo(q.Unit) for a unit of q's dimension.
CallConvertToAndBack ==
    /\ phase = "built"
    /\ \E unit \in {u \in OperandUnits(q) : u.dimension = q.Unit.dimension} :
          /\ call' = Call("ConvertTo.ConvertTo", q.T, unit, ZeroQuantity(""))
          /\ res' = LET first == ConvertTo(q, unit)
                    IN  IF first.status # "ok" THEN first
                        ELSE ConvertTo(first.q, q.Unit)
    /\ phase' = "done"
    /\ UNCHANGED <<q, data, origin, ans, fn, arg, out>>

Scalars == {Rat(s) : s \in -1..MaxScalar}

CallDivideByScalar ==
    /\ phase = "built"
    /\ \E scalar \in Scalars :
          /\ call' = Call("DivideByScalar", q.T, ZeroUnit, Quantity("", scalar, ZeroUnit))
          /\ res' = DivideByScalar(q, scalar)
    /\ phase' = "done"
    /\ UNCHANGED <<q, data, origin, ans, fn, arg, out>>

\* Units of the quantity compared with q: same-dimension comparisons stay
\* within the dimensions whose base values fit 32-bit integer arithmetic.
ComparedUnits(m) ==
    IF m.T \in ExactDimensions THEN OperandUnits(m) ELSE OperandUnits(m) \ {m.Unit}

\* q.Equal(other): the answer is in ans, a panic in res.
CallEqual ==
    /\ phase = "built"
    /\ \E unit \in ComparedUnits(q) : \E v \in OperandValues \cup {q.Value} :
          LET other == Quantity(q.T, v, unit)
              equal == Equal(q, other)
          IN  /\ call' = Call("Equal", q.T, ZeroUnit, other)
              /\ res' = IF equal = "panic" THEN Panic(q.T, "InfiniteEfficiency")
                        ELSE NoOutcome
              /\ ans' = IF equal = "panic" THEN NoAnswer ELSE Answer(equal, ZeroQuantity(""))
    /\ phase' = "done"
    /\ UNCHANGED <<q, data, origin, fn, arg, out>>

\* An accessor of the AnyMeasurement that UnmarshalMeasurement returned.
AccessorDimensions == {"temperature", "pressure", "general"} \cup {res.q.T}

CallAsD ==
    /\ phase = "done"
    /\ call.op = "UnmarshalMeasurement"
    /\ res.status = "ok"
    /\ \E D \in AccessorDimensions :
          /\ call' = Call("AsD", D, ZeroUnit, ZeroQuantity(""))
          /\ ans' = AsD(res, D)
    /\ phase' = "read"
    /\ UNCHANGED <<q, data, origin, res, fn, arg, out>>

\* The program starts over.
Reset ==
    /\ phase \in {"done", "read"}
    /\ phase' = "idle"
    /\ q' = ZeroQuantity("")
    /\ data' = Malformed
    /\ origin' = "none"
    /\ call' = NoCall
    /\ res' = NoOutcome
    /\ ans' = NoAnswer
    /\ UNCHANGED <<fn, arg, out>>

Next ==
    \/ NewQuantity
    \/ Marshal
    \/ Receive
    \/ CallUnmarshalD
    \/ CallUnmarshalMeasurement
    \/ CallQuantityUnmarshalJSON
    \/ CallConvertTo
    \/ CallAdd
    \/ CallSubtract
    \/ MarshalJSON
    \/ CallConvertToAndBack
    \/ CallDivideByScalar
    \/ CallEqual
    \/ CallAsD
    \/ Reset

Spec == Init /\ [][Next]_vars

-----------------------------------------------------------------------------
(* The helper functions applied on their own: a caller picks the           *)
(* arguments, applies one function and starts over.                        *)

program == <<phase, q, data, origin, call, res, ans>>

\* Names are strings of at most MaxLen characters over a lower-case
\* letter, an upper-case letter, a space and an underscore.
RECURSIVE StringsOfLength(_)
StringsOfLength(n) ==
    IF n = 0 THEN {""}
    ELSE {s \o c : s \in StringsOfLength(n - 1), c \in {"a", "B", " ", "_"}}

NameStrings ==
    UNION {StringsOfLength(n) : n \in 0..MaxLen}
    \cup {"KilometersPerHour", "BTU", "Kilometers per Hour"}

CallToSnakeCase ==
    /\ fn = "none"
    /\ \E s \in NameStrings :
          /\ arg' = <<s>>
          /\ out' = toSnakeCase(s)
    /\ fn' = "toSnakeCase"
    /\ UNCHANGED program

CallUnitKey ==
    /\ fn = "none"
    /\ \E dimension \in {"speed", "Speed"} : \E name \in NameStrings :
          /\ arg' = <<dimension, name>>
          /\ out' = unitKey(dimension, name)
    /\ fn' = "unitKey"
    /\ UNCHANGED program

\* Documents whose unit object has null members.
NullMemberPayloads ==
    {Document(JNumber(Rat(10)), JObject, k, Absent, Absent, ud, Absent, td) :
        k \in {Absent, Null, JString("pressure_kilopascal")},
        ud \in {Absent, Null, JString("temperature")},
        td \in {Absent, Null, JString("fuel_efficiency")}}

CallDetectFormat ==
    /\ fn = "none"
    /\ \E doc \in Payloads \cup NullMemberPayloads :
          /\ arg' = <<doc>>
          /\ out' = detectFormat(doc)
    /\ fn' = "detectFormat"
    /\ UNCHANGED program

Return ==
    /\ fn # "none"
    /\ fn' = "none"
    /\ arg' = <<>>
    /\ out' = <<>>
    /\ UNCHANGED program

\* UnmarshalCompactD(MarshalCompactD(New(v, U))), with and without the symbol.
CallCompactRoundTrip ==
    /\ fn = "none"
    /\ \E D \in DOMAIN UnitsByKey : \E U \in UnitsOf(D) : \E v \in Values :
       \E includeSymbol \in BOOLEAN :
          /\ arg' = <<New(D, v, U), marshalCompactGeneric(New(D, v, U), includeSymbol)>>
          /\ out' = UnmarshalCompactD(D, marshalCompactGeneric(New(D, v, U), includeSymbol))
    /\ fn' = "UnmarshalCompactD"
    /\ UNCHANGED program

\* LookupDUnit(symbol) for the symbols of D's units and of D's table.
CallLookupUnit ==
    /\ fn = "none"
    /\ \E D \in DOMAIN UnitsBySymbol :
       \E symbol \in DOMAIN UnitsBySymbol[D] \cup {U.symbol : U \in UnitsOf(D)} \cup {"xyz"} :
          /\ arg' = <<D, symbol>>
          /\ out' = LookupDUnit(D, symbol)
    /\ fn' = "LookupDUnit"
    /\ UNCHANGED program

\* U.IsBaseUnit() for a predefined unit U of a dimension D.
CallIsBaseUnit ==
    /\ fn = "none"
    /\ \E D \in Dimensions : \E U \in UnitsOf(D) :
          /\ arg' = <<D, U>>
          /\ out' = IsBaseUnit(U)
    /\ fn' = "IsBaseUnit"
    /\ UNCHANGED program

NextFn ==
    \/ CallToSnakeCase
    \/ CallUnitKey
    \/ CallDetectFormat
    \/ CallCompactRoundTrip
    \/ CallLookupUnit
    \/ CallIsBaseUnit
    \/ Return

SpecFn == Init /\ [][NextFn]_vars

-----------------------------------------------------------------------------
(* Properties.                                                             *)

\* The operation op has returned.
Called(op) == phase = "done" /\ call.op = op

\* The unit symbol and the unit key a payload carries.
PayloadSymbol(doc) == IF doc.unit.t = "object" THEN doc.unit_symbol.s ELSE doc.symbol.s
PayloadKey(doc) == IF doc.unit.t = "object" THEN doc.unit_key.s ELSE doc.unit.s

\* Every member has the JSON kind its wire format declares.
WellTyped(doc) ==
    /\ doc.wellFormed
    /\ doc.value.t = "number"
    /\ doc.unit.t \in {"string", "object"}
    /\ \A member \in {doc.unit_key, doc.unit_symbol, doc.unit_name,
                      doc.unit_dimension, doc.symbol, doc.dimension} :
          member.t \in {"absent", "string"}

\* The payload's symbol or key names a predefined unit of D.
NamesUnit(D, doc) ==
    \/ PayloadSymbol(doc) \in DOMAIN UnitsBySymbol[D]
    \/ \E i \in DOMAIN UnmarshalCases[D] :
          EqualFold(parseUnitKey(PayloadKey(doc))[2], UnmarshalCases[D][i].key)

\* The payload has none of the three wire shapes.
NoWireShape(doc) ==
    \/ ~doc.wellFormed
    \/ doc.unit.t \notin {"string", "object"}
    \/ /\ doc.unit.t = "object"
       /\ doc.unit_key.t # "string"
       /\ doc.unit_dimension.t # "string"
       /\ doc.dimension.t # "string"

\* C1: for every dimension D, every predefined unit U of D and each of the
\* three wire formats f, UnmarshalD applied to MarshalWithFormat(New(v, U), f)
\* returns no error and a quantity Equal to New(v, U).
C1_RoundTripInEveryFormat ==
    (Called("UnmarshalD") /\ origin \in Formats /\ call.T = q.T)
        => (res.status = "ok" /\ Equal(res.q, q) = "true")

\* C2: for a well-formed document with a number n as value whose unit names
\* no dimension UnmarshalMeasurement dispatches on, UnmarshalMeasurement
\* returns no error, a measurement of dimension "general", and the value n.
C2_UnknownDimensionFallsBackToGeneral ==
    (/\ Called("UnmarshalMeasurement")
     /\ data.wellFormed
     /\ data.value.t = "number"
     /\ detectFormat(data).err = ""
     /\ detectFormat(data).dimension \notin DispatchDimensions)
        => (/\ res.status = "ok"
            /\ res.dimension = "general"
            /\ res.q.Unit.dimension = "general"
            /\ res.q.Value = data.value.n)

\* C2 happens: the unit string "warp_factor" with value 10 came back as a
\* general measurement of value 10.
C2_WarpFactorFellBack ==
    /\ Called("UnmarshalMeasurement")
    /\ data.unit = JString("warp_factor")
    /\ data.value = JNumber(Rat(10))
    /\ res.status = "ok"
    /\ res.dimension = "general"
    /\ res.q.Value = Rat(10)

\* C3: UnmarshalMeasurement returns an error, never a quantity, when the
\* payload is not well-formed JSON, has no unit member, has a unit that is
\* neither a string nor an object, or has a unit object carrying no key, no
\* nested dimension and no sibling dimension.
C3_NoWireShapeIsAnError ==
    (Called("UnmarshalMeasurement") /\ NoWireShape(data)) => res.status = "error"

\* C4: whenever the payload's value member is a JSON string rather than a
\* number, UnmarshalMeasurement returns an error and never a quantity, for
\* every detected dimension.
C4_MalformedNumberIsPropagated ==
    (Called("UnmarshalMeasurement") /\ data.wellFormed /\ data.value.t = "string")
        => res.status = "error"

C6_DimensionMismatchIsAnError ==
    /\ (/\ Called("UnmarshalD")
        /\ detectFormat(data).err = ""
        /\ detectFormat(data).dimension # call.T)
           => res.status = "error"
    /\ (/\ Called("Quantity.UnmarshalJSON")
        /\ data.wellFormed
        /\ AsString(data.dimension).s # call.T)
           => res.status = "error"

\* C6 happens: a temperature payload with symbol "C", which is also the
\* symbol of the coulomb, was refused by UnmarshalElectricCharge.
C6_CelsiusRefusedAsCharge ==
    /\ Called("UnmarshalD")
    /\ call.T = "electric_charge"
    /\ detectFormat(data).err = ""
    /\ detectFormat(data).dimension = "temperature"
    /\ PayloadSymbol(data) = "C"
    /\ "C" \in DOMAIN UnitsBySymbol["electric_charge"]
    /\ res.status = "error"
    /\ res.err = "DimensionMismatch"

\* C7: for every dimension D other than general, UnmarshalD returns an error
\* when the payload's dimension tag is D but neither its symbol nor its key
\* names a predefined unit of D.
C7_UnknownUnitIsAnError ==
    (/\ Called("UnmarshalD")
     /\ call.T # "general"
     /\ detectFormat(data).err = ""
     /\ detectFormat(data).dimension = call.T
     /\ ~NamesUnit(call.T, data))
        => res.status = "error"

\* C7 happens: UnmarshalTemperature refused a temperature payload whose key
\* is "temperature_unknown" and whose symbol is "xyz".
C7_UnknownTemperatureUnitRefused ==
    /\ Called("UnmarshalD")
    /\ call.T = "temperature"
    /\ data.unit_key = JString("temperature_unknown")
    /\ data.unit_symbol = JString("xyz")
    /\ data.value.t = "number"
    /\ res.status = "error"
    /\ res.err = "UnknownUnit"

\* C8: no deserialization entry point (UnmarshalD, UnmarshalMeasurement,
\* Quantity.UnmarshalJSON) panics, whatever the payload.
C8_NoEntryPointPanics ==
    (phase = "done"
     /\ call.op \in {"UnmarshalD", "UnmarshalMeasurement", "Quantity.UnmarshalJSON"})
        => res.status # "panic"

\* C9: Add, Subtract and ConvertTo panic with DimensionMismatch, producing no
\* quantity, whenever the receiver's unit and the operand's or target unit
\* have different dimension strings.
C9_CrossDimensionPanics ==
    /\ (Called("ConvertTo") /\ q.Unit.dimension # call.unit.dimension)
           => (res.status = "panic" /\ res.err = "DimensionMismatch")
    /\ ((Called("Add") \/ Called("Subtract"))
        /\ q.Unit.dimension # call.other.Unit.dimension)
           => (res.status = "panic" /\ res.err = "DimensionMismatch")

\* C9 happens: converting a temperature to a unit whose dimension is
\* "pressure" panicked.
C9_TemperatureToPressurePanicked ==
    /\ Called("ConvertTo")
    /\ q.Unit.dimension = "temperature"
    /\ call.unit.dimension = "pressure"
    /\ res.status = "panic"
    /\ res.err = "DimensionMismatch"

\* C10: New(0, Temperature.Celsius).ConvertTo(Temperature.Fahrenheit).Value
\* is 32, and 22 degrees Celsius converts to 71.6 degrees Fahrenheit.
C10_CelsiusToFahrenheit ==
    /\ (/\ Called("ConvertTo")
        /\ q = New("temperature", Rat(0), Temperature.Celsius)
        /\ call.unit = Temperature.Fahrenheit)
           => (res.status = "ok" /\ res.q.Value = Rat(32))
    /\ (/\ Called("ConvertTo")
        /\ q = New("temperature", Rat(22), Temperature.Celsius)
        /\ call.unit = Temperature.Fahrenheit)
           => (res.status = "ok" /\ res.q.Value = RDiv(Rat(716), Rat(10)))

\* C11: q.ConvertTo(q.Unit) returns a quantity with exactly q's value and
\* q's unit, for every unit, also one with an offset or a reciprocal
\* conversion: no conversion arithmetic is applied.
C11_ConvertToOwnUnitIsIdentity ==
    (Called("ConvertTo") /\ call.unit = q.Unit)
        => (/\ res.status = "ok"
            /\ res.q.Value = q.Value
            /\ res.q.Unit = q.Unit)

\* C11 happens: 0 L/100km, whose conversion to the base unit would panic,
\* was converted to L/100km.
C11_ZeroLitersPer100KilometersKept ==
    /\ Called("ConvertTo")
    /\ q = New("fuel_efficiency", Zero, FuelEfficiency.LitersPer100Kilometers)
    /\ call.unit = q.Unit
    /\ res.status = "ok"
    /\ res.q = q

\* |x - y| <= 1e-6 * |y| for rationals x and y.
WithinRelativeTolerance(x, y) ==
    LET d == RAbs(RSub(x, y))
        scaled == RMul(d, Rat(1000000))
        bound == RAbs(y)
    IN  IsZero(d) \/ scaled[1] * bound[2] <= bound[1] * scaled[2]

\* C12: for every quantity q and every unit U of q's dimension,
\* q.ConvertTo(U).ConvertTo(q.Unit) completes without failing and returns
\* a quantity with q's unit whose value is q's value within 1e-6 relative
\* tolerance.
C12_ConvertToAndBackReturnsQ ==
    Called("ConvertTo.ConvertTo")
        => (/\ res.status = "ok"
            /\ res.q.Unit = q.Unit
            /\ WithinRelativeTolerance(res.q.Value, q.Value))

\* C13: for same-dimension quantities a and b, a.Add(b) has unit a.Unit
\* and value a.Value + b.ConvertTo(a.Unit).Value, and a.Subtract(b) has
\* unit a.Unit and value a.Value - b.ConvertTo(a.Unit).Value (the
\* operation fails exactly when that conversion of b fails).
C13_AddAndSubtractKeepLeftUnit ==
    LET b == call.other
        converted == ConvertTo(b, q.Unit)
    IN  /\ (Called("Add") /\ q.Unit.dimension = b.Unit.dimension)
              => IF converted.status = "ok"
                 THEN /\ res.status = "ok"
                      /\ res.q.Unit = q.Unit
                      /\ res.q.Value = RAdd(q.Value, converted.q.Value)
                 ELSE res.status = "panic"
        /\ (Called("Subtract") /\ q.Unit.dimension = b.Unit.dimension)
              => IF converted.status = "ok"
                 THEN /\ res.status = "ok"
                      /\ res.q.Unit = q.Unit
                      /\ res.q.Value = RSub(q.Value, converted.q.Value)
                 ELSE res.status = "panic"

\* C13 happens: 1 degree Celsius plus 1 Kelvin gave -271.15 degrees
\* Celsius.
C13_CelsiusPlusKelvin ==
    /\ Called("Add")
    /\ q = New("temperature", Rat(1), Temperature.Celsius)
    /\ call.other = New("temperature", Rat(1), Temperature.Kelvin)
    /\ res.status = "ok"
    /\ res.q.Unit = Temperature.Celsius
    /\ res.q.Value = <<-5423, 20>>

\* The value of a quantity in the base unit of its dimension.
Normalized(m) == ConvertToBaseUnit(m.T, m.Unit, m.Value)

\* A unit whose conversion to the base unit is a multiplication only.
Proportional(T, u) ==
    IsZero(u.offset) /\ ~(T = "fuel_efficiency" /\ u.symbol = "L/100km")

C15_DivideByScalar ==
    Called("DivideByScalar")
        => LET s == call.other.Value
           IN  IF IsZero(s)
               THEN res.status = "panic" /\ res.err = "DivisionByZero"
               ELSE /\ res.status = "ok"
                    /\ res.q.Unit = q.Unit
                    /\ RMul(res.q.Value, s) = q.Value

\* C15 happens: 22 degrees Fahrenheit divided by 0 panicked.
C15_DividedByZero ==
    /\ Called("DivideByScalar")
    /\ q = New("temperature", Rat(22), Temperature.Fahrenheit)
    /\ IsZero(call.other.Value)
    /\ res.status = "panic"
    /\ res.err = "DivisionByZero"

\* C16: Equal is a total predicate: for every pair of quantities it
\* returns a boolean and never panics, and it returns false for a pair of
\* different dimensions.
C16_EqualIsTotal ==
    Called("Equal")
        => (/\ res.status # "panic"
            /\ ans.found \in {"true", "false"}
            /\ (q.Unit.dimension # call.other.Unit.dimension => ans.found = "false"))

\* C17: for every non-zero v, New(v, FuelEfficiency.LitersPer100Kilometers)
\* converted to KilometersPerLiter has the value 100 / v (5 L/100km gives
\* 20 km/L), and converting that result back to LitersPer100Kilometers
\* returns v.
C17_ReciprocalUnit ==
    LET reciprocal ==
            /\ q.T = "fuel_efficiency"
            /\ q.Unit = FuelEfficiency.LitersPer100Kilometers
            /\ call.unit = FuelEfficiency.KilometersPerLiter
            /\ ~IsZero(q.Value)
    IN  /\ (Called("ConvertTo") /\ reciprocal)
              => (/\ res.status = "ok"
                  /\ res.q.Unit = FuelEfficiency.KilometersPerLiter
                  /\ RMul(res.q.Value, q.Value) = Rat(100)
                  /\ (q.Value = Rat(5) => res.q.Value = Rat(20)))
        /\ (Called("ConvertTo.ConvertTo") /\ reciprocal)
              => (res.status = "ok" /\ res.q = q)

\* C17 happens: 5 L/100km was converted to 20 km/L.
C17_FiveLitersPer100Kilometers ==
    /\ Called("ConvertTo")
    /\ q = New("fuel_efficiency", Rat(5), FuelEfficiency.LitersPer100Kilometers)
    /\ call.unit = FuelEfficiency.KilometersPerLiter
    /\ res.status = "ok"
    /\ res.q = New("fuel_efficiency", Rat(20), FuelEfficiency.KilometersPerLiter)

\* C18: for every AnyMeasurement m returned by UnmarshalMeasurement, the
\* accessor AsD returns (payload, true) for exactly the dimension type D
\* whose dimension string equals m.GetDimension(), and (zero value, false)
\* for every other dimension type.
C18_AccessorMatchesGetDimension ==
    (phase = "read" /\ call.op = "AsD")
        => IF call.T = res.dimension
           THEN ans.found = "true" /\ ans.q = res.q
           ELSE ans.found = "false" /\ ans.q = ZeroQuantity(call.T)

\* C18 happens: AsPressure on a measurement of dimension "temperature"
\* returned (zero value, false).
C18_AsPressureOfATemperature ==
    /\ phase = "read"
    /\ call.op = "AsD"
    /\ call.T = "pressure"
    /\ res.dimension = "temperature"
    /\ res.q.Unit = Temperature.Celsius
    /\ ans.found = "false"
    /\ ans.q = ZeroQuantity("pressure")

\* C19: for every predefined unit U and each wire format f,
\* UnmarshalMeasurement applied to MarshalWithFormat(New(v, U), f) returns
\* a measurement with GetDimension() = U.Dimension() that wraps a quantity
\* Equal to New(v, U); it is never downgraded to a general quantity.
C19_UnmarshalMeasurementRoundTrip ==
    (Called("UnmarshalMeasurement") /\ origin \in Formats)
        => (/\ res.status = "ok"
            /\ res.dimension = q.Unit.dimension
            /\ AsD(res, q.T).found = "true"
            /\ \/ AsD(res, q.T).q = q
               \/ Equal(AsD(res, q.T).q, q) = "true")

\* C20: marshalling a quantity in full format yields exactly the object
\* {"value": v, "unit": {"name": N, "symbol": S}, "dimension": D}, with
\* dimension as a top-level member and unit holding only name and symbol,
\* both through json.Marshal and through MarshalWithFormat(q, FormatFull).
C20_FullFormatShape ==
    (phase = "wire" /\ origin \in {FormatFull, "json"})
        => (/\ data.wellFormed
            /\ data.value = JNumber(q.Value)
            /\ data.unit = JObject
            /\ data.unit_name = JString(q.Unit.name)
            /\ data.unit_symbol = JString(q.Unit.symbol)
            /\ data.unit_key = Absent
            /\ data.unit_dimension = Absent
            /\ data.symbol = Absent
            /\ data.dimension = JString(q.Unit.dimension))

\* The four steps of the key derivation, each on its own.
RECURSIVE InsertBeforeUpper(_, _)
InsertBeforeUpper(s, i) ==
    IF i > Len(s) THEN ""
    ELSE (IF IsUpper(CharAt(s, i)) /\ i > 1 /\ CharAt(s, i - 1) # "_"
          THEN "_" ELSE "")
         \o CharAt(s, i) \o InsertBeforeUpper(s, i + 1)

RECURSIVE CollapseUnderscores(_)
CollapseUnderscores(s) ==
    IF Len(s) < 2 THEN s
    ELSE IF CharAt(s, 1) = "_" /\ CharAt(s, 2) = "_"
    THEN CollapseUnderscores(SubSeq(s, 2, Len(s)))
    ELSE CharAt(s, 1) \o CollapseUnderscores(SubSeq(s, 2, Len(s)))

SnakeCaseInSteps(s) ==
    CollapseUnderscores(ToLower(InsertBeforeUpper(ReplaceSpaces(s), 1)))

RECURSIVE TrimLeadingUnderscores(_)
TrimLeadingUnderscores(s) ==
    IF s # "" /\ CharAt(s, 1) = "_"
    THEN TrimLeadingUnderscores(SubSeq(s, 2, Len(s))) ELSE s

NoDoubleUnderscore(s) ==
    \A i \in 1..(Len(s) - 1) : ~(CharAt(s, i) = "_" /\ CharAt(s, i + 1) = "_")

\* C21 as stated: unitKey(dimension, name) is the lower-cased dimension,
\* one underscore and the snake_case of name, where snake_case replaces
\* spaces by underscores, inserts an underscore before each internal
\* upper-case letter not already preceded by one, lower-cases everything
\* and collapses repeated underscores.
C21_SnakeCaseInFourSteps ==
    /\ fn = "toSnakeCase" => out = SnakeCaseInSteps(arg[1])
    /\ fn = "unitKey"
          => out = ToLower(arg[1]) \o "_" \o SnakeCaseInSteps(arg[2])

\* C21 amended: as stated, except that the snake_case of a name never
\* starts with an underscore: leading spaces and underscores of the name
\* are dropped.  unitKey("speed", "KilometersPerHour") is
\* "speed_kilometers_per_hour" and toSnakeCase("BTU") is "b_t_u".
C21_SnakeCaseWithoutLeadingUnderscore ==
    /\ fn = "toSnakeCase"
          => (/\ out = TrimLeadingUnderscores(SnakeCaseInSteps(arg[1]))
              /\ NoDoubleUnderscore(out)
              /\ (arg[1] = "BTU" => out = "b_t_u"))
    /\ fn = "unitKey"
          => (/\ out = ToLower(arg[1]) \o "_"
                        \o TrimLeadingUnderscores(SnakeCaseInSteps(arg[2]))
              /\ (arg = <<"speed", "KilometersPerHour">>
                     => out = "speed_kilometers_per_hour"))

\* C21 happens: unitKey("speed", "KilometersPerHour") returned
\* "speed_kilometers_per_hour".
C21_SpeedKilometersPerHour ==
    /\ fn = "unitKey"
    /\ arg = <<"speed", "KilometersPerHour">>
    /\ out = "speed_kilometers_per_hour"

\* C22: whenever UnmarshalMeasurement falls back to a general quantity,
\* the synthesized unit's symbol and name are taken verbatim from the
\* payload's unit identifier: for a string-valued unit they are that whole
\* string, for an object-valued unit with a symbol the symbol is that
\* symbol and the name is the object's name or, without one, the symbol.
C22_FallbackUnitIsVerbatim ==
    (/\ Called("UnmarshalMeasurement")
     /\ WellTyped(data)
     /\ res.status = "ok"
     /\ res.dimension = "general"
     /\ detectFormat(data).dimension # "general")
        => IF data.unit.t = "string"
           THEN res.q.Unit.symbol = data.unit.s /\ res.q.Unit.name = data.unit.s
           ELSE data.unit_symbol.t = "string"
                  => (/\ res.q.Unit.symbol = data.unit_symbol.s
                      /\ res.q.Unit.name \in {data.unit_name.s, data.unit_symbol.s})

\* The part of s before its first underscore, all of s if it has none.
PrefixBeforeUnderscore(s) ==
    LET n == CHOOSE n \in 0..Len(s) :
                /\ \A i \in 1..n : CharAt(s, i) # "_"
                /\ (n = Len(s) \/ CharAt(s, n + 1) = "_")
    IN  SubSeq(s, 1, n)

\* C23: when the unit member is a JSON object, detectFormat takes the
\* dimension from unit.key (the prefix before its first underscore, format
\* compact) if key is present as a string; otherwise from the dimension
\* nested inside unit (format full); otherwise from the top-level dimension
\* member (format full), in exactly that precedence.
C23_DetectFormatPrecedence ==
    (fn = "detectFormat" /\ arg[1].wellFormed /\ arg[1].unit.t = "object")
        => LET doc == arg[1]
           IN  CASE doc.unit_key.t = "string" ->
                      /\ out.err = ""
                      /\ out.format = FormatCompact
                      /\ out.dimension = PrefixBeforeUnderscore(doc.unit_key.s)
                 [] doc.unit_key.t # "string" /\ doc.unit_dimension.t = "string" ->
                      /\ out.err = ""
                      /\ out.format = FormatFull
                      /\ out.dimension = doc.unit_dimension.s
                 [] /\ doc.unit_key.t # "string"
                    /\ doc.unit_dimension.t # "string"
                    /\ doc.dimension.t = "string" ->
                      /\ out.err = ""
                      /\ out.format = FormatFull
                      /\ out.dimension = doc.dimension.s
                 [] OTHER -> TRUE

\* C24: when the unit member is a JSON string s, detectFormat classifies
\* the payload as minimal and returns as dimension the prefix of s before
\* its first underscore (all of s if it has none), whether or not a
\* top-level symbol member is present; the tag of a key that unitKey
\* produced for the dimension "electric_current" is only "electric".
C24_StringUnitIsMinimal ==
    (fn = "detectFormat" /\ arg[1].wellFormed /\ arg[1].unit.t = "string")
        => (/\ out.err = ""
            /\ out.format = FormatMinimal
            /\ out.dimension = PrefixBeforeUnderscore(arg[1].unit.s)
            /\ (arg[1].unit.s = unitKey("electric_current", "Ampere")
                   => out.dimension = "electric"))

\* C24 happens: the unit string "electric_current_ampere" beside a
\* top-level symbol was detected as minimal with dimension "electric".
C24_ElectricCurrentKey ==
    /\ fn = "detectFormat"
    /\ arg[1].unit = JString("electric_current_ampere")
    /\ arg[1].symbol.t = "string"
    /\ out = Detected(FormatMinimal, "electric")

\* C25: detectFormat returns an error for every document that has no unit
\* member, or whose unit member is neither a JSON string nor a JSON object
\* with a string key, a string nested dimension or a string top-level
\* dimension beside it (unit null, a number, an object with none of them).
C25_NoWireShapeIsADetectError ==
    (fn = "detectFormat" /\ NoWireShape(arg[1])) => out.err # ""

\* The units of D that the payload's symbol names, and those its key names.
UnitsNamedBySymbol(D, doc) ==
    {UnmarshalCases[D][i].unit : i \in {j \in 1..Len(UnmarshalCases[D]) :
        PayloadSymbol(doc) \in UnmarshalCases[D][j].symbols}}
UnitsNamedByKey(D, doc) ==
    {UnmarshalCases[D][i].unit : i \in {j \in 1..Len(UnmarshalCases[D]) :
        EqualFold(parseUnitKey(PayloadKey(doc))[2], UnmarshalCases[D][j].key)}}

\* C26: when a payload accepted by UnmarshalD carries a unit symbol and a
\* unit key that name two different predefined units of D, the returned
\* quantity's unit is the one the symbol names.
C26_SymbolPreferredToKey ==
    (/\ Called("UnmarshalD")
     /\ call.T \in DOMAIN UnmarshalCases
     /\ res.status = "ok"
     /\ WellTyped(data)
     /\ UnitsNamedBySymbol(call.T, data) # {}
     /\ UnitsNamedByKey(call.T, data) # {}
     /\ UnitsNamedBySymbol(call.T, data) # UnitsNamedByKey(call.T, data))
        => res.q.Unit \in UnitsNamedBySymbol(call.T, data)

\* C27: for every dimension D with a by-key registry and every predefined
\* unit U of D, the key unitKey(U.Dimension(), U.Name()) that the compact
\* marshaller emits is a key of D's registry and maps to U, so
\* UnmarshalCompactD(MarshalCompactD(New(v, U))) succeeds and returns unit U.
C27_CompactKeyRoundTrip ==
    fn = "UnmarshalCompactD"
        => LET U == arg[1].Unit
               key == unitKey(U.dimension, U.name)
           IN  /\ key \in DOMAIN UnitsByKey[arg[1].T]
               /\ UnitsByKey[arg[1].T][key] = U
               /\ out.status = "ok"
               /\ out.q.Unit = U

\* C28: within every dimension the predefined units have pairwise distinct
\* symbols, and LookupDUnit(U.Symbol()) returns (U, true) for every
\* predefined unit U of D.
C28_LookupBySymbolFindsTheUnit ==
    fn = "LookupDUnit"
        => /\ \A U, V \in UnitsOf(arg[1]) : U.symbol = V.symbol => U = V
           /\ \A U \in UnitsOf(arg[1]) :
                 U.symbol = arg[2] => out = [unit |-> U, ok |-> TRUE]

\* C28 happens: LookupTemperatureUnit("K") found the kelvin.
C28_KelvinFound ==
    /\ fn = "LookupDUnit"
    /\ arg = <<"temperature", "K">>
    /\ out.ok
    /\ out.unit = Temperature.Kelvin

\* C29: in every dimension's table of predefined units exactly one unit has
\* isBase = true, and that unit has coefficient 1 and offset 0.
C29_OneBaseUnitPerDimension ==
    fn = "IsBaseUnit"
        => /\ Cardinality({V \in UnitsOf(arg[1]) : IsBaseUnit(V)}) = 1
           /\ out => (arg[2].coefficient = One /\ arg[2].offset = Zero)

\* C29 happens: Temperature.Celsius answered that it is the base unit, and
\* Temperature.Kelvin, whose coefficient is 1 too, that it is not.
C29_CelsiusIsTheBase ==
    /\ fn = "IsBaseUnit"
    /\ arg = <<"temperature", Temperature.Celsius>>
    /\ out
    /\ ~IsBaseUnit(Temperature.Kelvin)

\* C30: if Quantity.UnmarshalJSON returns an error, the receiver is left
\* exactly as it was before the call: neither its Value nor its Unit has
\* changed.  (The receiver of the call is the zero Quantity[T].)
C30_ReceiverUnchangedOnError ==
    (Called("Quantity.UnmarshalJSON") /\ res.status = "error")
        => res.q = ZeroQuantity(call.T)

=============================================================================
